---- MODULE Spec2Model ----
(***************************************************************************)
(* Scheduling and bracket-advancement core of RMS_BE.                      *)
(*                                                                         *)
(* Spec : the playoff stage of one tournament (PlayoffScheduler): bracket  *)
(*        generation, match completion, bracket advance from its two call  *)
(*        sites (the HTTP endpoint and the match-change trigger) stepping  *)
(*        through the awaited persistence calls, and rank finalization,    *)
(*        each request served to its end before the next one.              *)
(* SpecConcurrent : builds, completions and advances, overlapping.         *)
(* SpecOptimizer : one run of FrcScheduler: the initial schedule and the   *)
(*        simulated-annealing loop of optimizeSchedule, swap by swap.      *)
(***************************************************************************)
EXTENDS Integers, Sequences, FiniteSets, TLC

\* ---------------------------------------------------------------- bounds
MaxTeams == 8     \* largest number of teamStats rows of the tournament
MinTeams == 4     \* number of teamStats rows of the tournament the optimizer runs on
MaxRounds == 3    \* largest numberOfRounds passed to generatePlayoffSchedule
MaxMatches == 3   \* largest number of Match rows kept in the stage
MaxFields == 1    \* largest number of Field rows of the tournament
MaxOptTeams == 4      \* largest number of teams handed to FrcScheduler
MaxOptAlliance == 2   \* largest config.teamsPerAlliance
MaxOptRounds == 2     \* largest config.rounds.count
MaxIterations == 2    \* largest maxIterations
MaxSwissTeams == 4     \* largest number of teams of the Swiss stage
MaxSwissAlliance == 2  \* largest supported teamsPerAlliance of a Swiss round
MaxPoints == 1         \* largest TeamStats.rankingPoints
MaxRankTeams == 3      \* number of teams of the tournament whose standings are refreshed
MaxRankMatches == 2    \* largest number of matches of the refreshed stage
MaxScore == 1          \* largest alliance score
MaxRefresh == 2        \* largest number of updateSwissRankings calls
MaxRequests == 2       \* number of schedule-generation requests
MaxSortTeams == 3      \* largest number of TeamStats rows handed to the sort
MaxMixedMatches == 5   \* largest number of Match rows of a stage the optimizer also writes to
MaxBuiltBefore == 1    \* most bracket matches a stage holds when a build follows the optimizer
MaxChanges == 2        \* largest number of recordMatchChange calls
MaxBalancedFields == 3 \* largest number of fields the matches are spread over
MaxAssignments == 5    \* largest number of matches given a field in one run

\* ------------------------------------------------- DEFAULT_FRC_CONFIG values
AlliancesPerMatch == 2
PartnerRepeat == 3
OpponentRepeat == 2
MatchSeparationViolation == 10
RedBlueImbalance == 2
StationImbalanceHalves == 1     \* penalties.stationImbalance = 0.5, in halves
GeneralRepeat == 1              \* penalties.generalRepeat = 1.0
MinMatchSeparation == 1
IterationsPerTemperature == 100
\* least k with initialTemperature * coolingRate^k <= minTemperature
\* (100 * 0.95^179 = 0.0103, 100 * 0.95^180 = 0.0098)
CoolingsToMinTemperature == 180

\* the alliance sizes the scheduling strategies support
MinAllianceSize == 1
MaxAllianceSize == 3

\* ------------------------------------------------------- enumerated types
PENDING == "PENDING"
COMPLETED == "COMPLETED"
IN_PROGRESS == "IN_PROGRESS"
RED == "RED"
BLUE == "BLUE"
NULL == "NULL"
PLAYOFF == "PLAYOFF"
SWISS == "SWISS"
FINAL == "FINAL"

\* the two call sites of updatePlayoffBrackets
Callers == {"endpoint", "trigger"}

VARIABLES
  teamStats,   \* teamStats rows of the tournament in FRC_RANKING_ORDER (team ids)
  matches,     \* Match rows of the stage; the index is the match id
  rank,        \* TeamStats.rank of the stage, per team (0 = never written)
  pc,          \* per caller: position inside updatePlayoffBrackets
  call,        \* per caller: locals of updatePlayoffBrackets
  advanced,    \* ids of the matches for which updatePlayoffBrackets returned
  lastEnded    \* the call that ended last and how, none once a later call is under way

vars == <<teamStats, matches, rank, pc, call, advanced, lastEnded>>

VARIABLES
  config,        \* FrcScheduler: numTeams, teamsPerAlliance, rounds, maxIterations,
                 \* and the number of fields of the tournament
  phase,         \* position of the generateFrcSchedule call
  schedule,      \* optimizeSchedule: the active schedule's matches
  score,         \* schedule.score, in units of 1 / (2 * totalStations)
  bestSchedule,  \* optimizeSchedule: bestSchedule.matches
  bestScore,     \* optimizeSchedule: bestScore, same unit
  iteration,     \* optimizeSchedule: loop counter
  createdMatches, \* generateFrcSchedule: number of Match rows created by the call
  lowestAccepted \* history: the lowest score among the initial schedule and the
                 \* neighbors that became the active schedule

optVars == <<config, phase, schedule, score, bestSchedule, bestScore, iteration,
             createdMatches, lowestAccepted>>

VARIABLES
  swiss,          \* SwissSchedulingStrategy.generateMatches: the call's options
  swissTeamStats, \* TeamStats rows of the Swiss stage, per team id
  swissRankings,       \* the rows getSwissRankings returns, in the order returned (team ids)
  swissStage,     \* Match rows of the Swiss stage, in creation order
  swissPhase,     \* position of the generateMatches call
  swissCreated    \* number of Match rows the call has created

swissVars == <<swiss, swissTeamStats, swissRankings, swissStage, swissPhase, swissCreated>>

VARIABLES
  stageMatches,   \* updateSwissRankings: the Match rows of the stage
  stageStats,     \* the TeamStats rows of the tournament, per team id
  refreshCalls    \* number of updateSwissRankings calls that returned

rankVars == <<stageMatches, stageStats, refreshCalls>>

VARIABLES
  schedulerConfig, \* FrcScheduler.config of the service's scheduler
  request          \* per schedule-generation request: its arguments, its position,
                   \* the configuration its schedule was computed with

cfgVars == <<schedulerConfig, request>>

VARIABLES
  sortStats,      \* sortTeamsByTiebreakers: the TeamStats rows, per team id
  sortOrder,      \* the order in which getSwissRankings returned them
  sortResult     \* the sorted order; empty before the sort

sortVars == <<sortStats, sortOrder, sortResult>>

VARIABLES
  shuffledFields,         \* generateFrcSchedule: the fields (their numbers), shuffled
  fieldAssignmentCounts,  \* matches given to shuffledFields[idx] so far in the run
  matchFields             \* field number of the matches created so far, in order

fieldVars == <<shuffledFields, fieldAssignmentCounts, matchFields>>

VARIABLES
  recentChanges,  \* MatchChangeDetectionService.recentChanges: the stored events
  change,         \* the recordMatchChange call: its position, arguments and the
                  \* stage type it read
  advanceCalls,   \* history: updatePlayoffBrackets calls made by the current call
  rankingCalls,   \* history: calculateAndWriteRankings calls made by the current call
  changeCount     \* history: number of recordMatchChange calls so far

changeVars == <<recentChanges, change, advanceCalls, rankingCalls, changeCount>>

moreVars == <<rankVars, cfgVars, sortVars, fieldVars, changeVars>>

allVars == <<vars, optVars, swissVars, moreVars>>

Pow2(n) == 2 ^ n

Other(color) == IF color = RED THEN BLUE ELSE RED

\* TeamAlliance row
Row(teamId, stationPosition) == [teamId |-> teamId, stationPosition |-> stationPosition]

\* the roster (TeamAlliance rows) of one alliance of a match row
Roster(m, color) == IF color = RED THEN m.red ELSE m.blue

TeamsOf(rows) == {rows[i].teamId : i \in DOMAIN rows}

\* an operation `op` that returned ("ok") or threw (the error's name)
Ended(op, res) == [op |-> op, res |-> res]

NoCall == [matchId |-> 0, rows |-> <<>>, nextId |-> 0, target |-> NULL,
           targetRows |-> <<>>, k |-> 0]

\* the stage before any bracket is built, numTeams teams ranked
InitPlayoff(numTeams) ==
  /\ teamStats = [i \in 1..numTeams |-> i]
  /\ matches = <<>>
  /\ rank = [t \in 1..MaxTeams |-> 0]
  /\ pc = [c \in Callers |-> "idle"]
  /\ call = [c \in Callers |-> NoCall]
  /\ advanced = {}
  /\ lastEnded = Ended("none", "none")

\* ------------------------------------------------ generatePlayoffSchedule

\* lastMatchNumber?.matchNumber ? lastMatchNumber.matchNumber + 1 : 1
NextMatchNumber(ms) ==
  IF ms = <<>> THEN 1
  ELSE LET top == CHOOSE i \in DOMAIN ms : \A j \in DOMAIN ms : ms[j].matchNumber <= ms[i].matchNumber
       IN ms[top].matchNumber + 1

\* lastBracketSlot?.bracketSlot ? lastBracketSlot.bracketSlot + 1 : 1, where
\* lastBracketSlot is the first row under orderBy bracketSlot desc: PostgreSQL
\* puts the rows without a bracket slot (0 here) first in a descending order
NextBracketSlot(ms) ==
  IF ms = <<>> THEN 1
  ELSE IF \E i \in DOMAIN ms : ms[i].bracketSlot = 0 THEN 1
  ELSE LET top == CHOOSE i \in DOMAIN ms : \A j \in DOMAIN ms : ms[j].bracketSlot <= ms[i].bracketSlot
       IN ms[top].bracketSlot + 1

\* const seedOrder = [0, 3, 1, 2]; an index past its end reads undefined (-1)
SeedOrder(k) ==
  IF k < 4 THEN <<0, 3, 1, 2>>[k + 1] ELSE -1

\* teamStats[idx]: the team id of the row with zero-based rank idx, 0 when undefined
SeedTeam(stats, idx) ==
  IF idx >= 0 /\ idx < Len(stats) THEN stats[idx + 1] ELSE 0

RedSeed(stats, matchIndex) == SeedTeam(stats, SeedOrder(matchIndex * 2))
BlueSeed(stats, matchIndex) == SeedTeam(stats, SeedOrder(matchIndex * 2 + 1))

\* createSeededAlliancePayload throws "Unable to determine playoff seeds"
SeedThrows(stats, matchIndex) ==
  RedSeed(stats, matchIndex) = 0 \/ BlueSeed(stats, matchIndex) = 0

\* the number of round-1 matches created before createSeededAlliancePayload
\* throws (all 2^(R-1) of them when it never throws)
RECURSIVE SeededCount(_, _, _)
SeededCount(stats, matchIndex, matchesInRound) ==
  IF matchIndex >= matchesInRound \/ SeedThrows(stats, matchIndex) THEN matchIndex
  ELSE SeededCount(stats, matchIndex + 1, matchesInRound)

\* matchesInRound = Math.pow(2, numberOfRounds - round)
MatchesInRound(numberOfRounds, round) == Pow2(numberOfRounds - round)

\* number of matches created in the rounds before `round`
RECURSIVE CreatedBefore(_, _)
CreatedBefore(numberOfRounds, round) ==
  IF round <= 1 THEN 0
  ELSE CreatedBefore(numberOfRounds, round - 1) + MatchesInRound(numberOfRounds, round - 1)

\* round and matchIndex of the k-th match created (k from 0)
RECURSIVE RoundOfCreated(_, _, _)
RoundOfCreated(numberOfRounds, k, round) ==
  IF k < CreatedBefore(numberOfRounds, round + 1) THEN round
  ELSE RoundOfCreated(numberOfRounds, k, round + 1)

\* currentRoundMatches[Math.floor(index / 2)]: the position in creation order
\* (from 0) of the match that the k-th created match feeds into
FeedsIntoCreated(numberOfRounds, k) ==
  LET round == RoundOfCreated(numberOfRounds, k, 1)
      index == k - CreatedBefore(numberOfRounds, round)
  IN CreatedBefore(numberOfRounds, round + 1) + (index \div 2)

\* the Match row created by prisma.match.create for the k-th match of the call
CreatedMatch(stats, numberOfRounds, k, base, firstNumber, firstSlot, linked) ==
  LET round == RoundOfCreated(numberOfRounds, k, 1)
      matchIndex == k - CreatedBefore(numberOfRounds, round)
  IN [ roundNumber |-> round,
       matchNumber |-> firstNumber + k,
       bracketSlot |-> firstSlot + k,
       status |-> PENDING,
       winningAlliance |-> NULL,
       feedsIntoMatchId |->
         IF linked /\ round < numberOfRounds
         THEN base + FeedsIntoCreated(numberOfRounds, k) + 1 ELSE 0,
       red |-> IF round = 1 THEN <<Row(RedSeed(stats, matchIndex), 1)>> ELSE <<>>,
       blue |-> IF round = 1 THEN <<Row(BlueSeed(stats, matchIndex), 1)>> ELSE <<>> ]

\* the Match rows of the stage after the loop over the rounds: every match with
\* its forward reference when no seed lookup throws, else the round-1 matches
\* created before the throw
MatchesAfterGenerate(ms, stats, numberOfRounds) ==
  LET seeded == SeededCount(stats, 0, MatchesInRound(numberOfRounds, 1))
      complete == seeded = MatchesInRound(numberOfRounds, 1)
      count == IF complete THEN Pow2(numberOfRounds) - 1 ELSE seeded
  IN ms \o [k \in 1..count |->
              CreatedMatch(stats, numberOfRounds, k - 1, Len(ms),
                           NextMatchNumber(ms), NextBracketSlot(ms), complete)]

GenerateOutcome(stageType, stats, numberOfRounds, numFields) ==
  IF stageType # PLAYOFF THEN "not_playoff"
  ELSE IF Len(stats) < Pow2(numberOfRounds) THEN "not_enough_teams"
  ELSE IF numFields = 0 THEN "no_fields"
  ELSE IF SeededCount(stats, 0, MatchesInRound(numberOfRounds, 1)) < MatchesInRound(numberOfRounds, 1)
       THEN "no_seeds"
  ELSE "ok"

\* the bound on the Match rows of the stage: MaxMatches for a stage that holds
\* bracket matches only, MaxMixedMatches for one the optimizer also writes to
StageCapacity == IF phase = "idle" THEN MaxMatches ELSE MaxMixedMatches

generatePlayoffSchedule(stageType, numberOfRounds, numFields) ==
  LET res == GenerateOutcome(stageType, teamStats, numberOfRounds, numFields)
      after == IF res \in {"ok", "no_seeds"}
               THEN MatchesAfterGenerate(matches, teamStats, numberOfRounds)
               ELSE matches
  IN /\ Len(after) <= StageCapacity
     /\ matches' = after
     /\ lastEnded' = Ended("generate", res)
     /\ UNCHANGED <<teamStats, rank, pc, call, advanced>>

\* ------------------------------------------------------ match life cycle

\* determineWinner(redTotalScore, blueTotalScore)
determineWinner(redTotalScore, blueTotalScore) ==
  IF redTotalScore > blueTotalScore THEN RED
  ELSE IF blueTotalScore > redTotalScore THEN BLUE
  ELSE NULL

\* the scores of a match are submitted and its status is set to completed, with
\* the winner that determineWinner gives
CompleteMatch(id, redTotalScore, blueTotalScore) ==
  /\ id \in DOMAIN matches
  /\ matches[id].status = PENDING
  /\ matches' = [matches EXCEPT ![id].status = COMPLETED,
                                ![id].winningAlliance = determineWinner(redTotalScore, blueTotalScore)]
  /\ UNCHANGED <<teamStats, rank, pc, call, advanced, lastEnded>>

\* -------------------------------------------------- updatePlayoffBrackets

\* orderBy: { bracketSlot: 'asc' }: slot1 sorts before slot2; PostgreSQL puts
\* the rows without a bracket slot (0 here) last in an ascending order
SlotBefore(slot1, slot2) == slot1 # 0 /\ (slot2 = 0 \/ slot1 < slot2)

\* matchesInRound.findIndex(entry => entry.id === matchId), matchesInRound being
\* the matches of the round ordered by bracketSlot ascending; with rows of an
\* equal bracket slot, the lowest index the match can have
MatchIndexInRound(ms, id) ==
  Cardinality({j \in DOMAIN ms : /\ ms[j].roundNumber = ms[id].roundNumber
                                 /\ SlotBefore(ms[j].bracketSlot, ms[id].bracketSlot)})

\* the indexes findIndex can return: rows of an equal bracket slot come in any
\* order
MatchIndexes(ms, id) ==
  LET ties == {j \in DOMAIN ms \ {id} : /\ ms[j].roundNumber = ms[id].roundNumber
                                         /\ ms[j].bracketSlot = ms[id].bracketSlot}
  IN MatchIndexInRound(ms, id)..(MatchIndexInRound(ms, id) + Cardinality(ties))

AdvancesAsFlipped(matchIndex) == IF matchIndex % 2 = 0 THEN BLUE ELSE RED

\* advancesAs = matchIndex % 2 === 0 ? RED : BLUE
AdvancesAs(matchIndex) == IF matchIndex % 2 = 0 THEN RED ELSE BLUE

AdvanceErrorNoWinnerCheck(ms, id) ==
  IF id \notin DOMAIN ms THEN "not_found"
  ELSE IF ms[id].status # COMPLETED THEN "not_completed"
  ELSE IF ms[id].feedsIntoMatchId = 0 THEN "no_forward"
  ELSE "none"

\* the error thrown by the validation of the match read, "none" when it passes
AdvanceError(ms, id) ==
  IF id \notin DOMAIN ms THEN "not_found"
  ELSE IF ms[id].status # COMPLETED THEN "not_completed"
  ELSE IF ms[id].winningAlliance = NULL THEN "no_winner"
  ELSE IF ms[id].feedsIntoMatchId = 0 THEN "no_forward"
  ELSE "none"

\* lines 194-237: read the match with its forward match, validate, locate the
\* target alliance
AdvanceRead(c, id) ==
  /\ pc[c] = "idle"
  /\ LET err == AdvanceError(matches, id)
     IN IF err # "none"
        THEN /\ lastEnded' = Ended("advance", err)
             /\ UNCHANGED <<pc, call>>
        ELSE /\ lastEnded' = Ended("none", "none")
             /\ \E matchIndex \in MatchIndexes(matches, id) :
                  call' = [call EXCEPT ![c] =
                    LET nextId == matches[id].feedsIntoMatchId
                        advancesAs == AdvancesAs(matchIndex)
                    IN [matchId |-> id,
                        rows |-> Roster(matches[id], matches[id].winningAlliance),
                        nextId |-> nextId,
                        target |-> advancesAs,
                        targetRows |-> Roster(matches[nextId], advancesAs),
                        k |-> 1]]
             /\ pc' = [pc EXCEPT ![c] = "delete"]
  /\ UNCHANGED <<teamStats, matches, rank, advanced>>

\* the Match rows with the roster of alliance `color` of match `id` replaced
WithRoster(ms, id, color, rows) ==
  IF color = RED THEN [ms EXCEPT ![id].red = rows] ELSE [ms EXCEPT ![id].blue = rows]

\* the call returns (lines 250-260): the locals die, the match counts as advanced
Returned(c) ==
  /\ pc' = [pc EXCEPT ![c] = "idle"]
  /\ call' = [call EXCEPT ![c] = NoCall]
  /\ lastEnded' = Ended("advance", "ok")
  /\ advanced' = advanced \cup {call[c].matchId}

\* line 239: prisma.teamAlliance.deleteMany({ allianceId: targetAlliance.id });
\* with no row to copy the loop is skipped and the call returns
AdvanceDelete(c) ==
  /\ pc[c] = "delete"
  /\ matches' = WithRoster(matches, call[c].nextId, call[c].target, <<>>)
  /\ IF call[c].rows = <<>>
     THEN Returned(c)
     ELSE /\ pc' = [pc EXCEPT ![c] = "create"]
          /\ UNCHANGED <<call, advanced, lastEnded>>
  /\ UNCHANGED <<teamStats, rank>>

\* the row created for a TeamAlliance row of the winning alliance
AdvancedRow(teamAlliance) == Row(teamAlliance.teamId, teamAlliance.stationPosition)

\* lines 241-249: one iteration of the loop, one prisma.teamAlliance.create;
\* after the last one the call returns
AdvanceCreate(c) ==
  /\ pc[c] = "create"
  /\ matches' = WithRoster(matches, call[c].nextId, call[c].target,
                  Append(Roster(matches[call[c].nextId], call[c].target),
                         AdvancedRow(call[c].rows[call[c].k])))
  /\ IF call[c].k = Len(call[c].rows)
     THEN Returned(c)
     ELSE /\ call' = [call EXCEPT ![c].k = @ + 1]
          /\ UNCHANGED <<pc, advanced, lastEnded>>
  /\ UNCHANGED <<teamStats, rank>>

\* lines 241-249: prisma.teamAlliance.create rejects; the error leaves the call
AdvanceCreateFails(c) ==
  /\ pc[c] = "create"
  /\ pc' = [pc EXCEPT ![c] = "idle"]
  /\ call' = [call EXCEPT ![c] = NoCall]
  /\ lastEnded' = Ended("advance", "db_error")
  /\ UNCHANGED <<teamStats, matches, rank, advanced>>

\* ------------------------------------------------ finalizePlayoffRankings

\* orderBy: [{ roundNumber: 'desc' }, { matchNumber: 'asc' }]
FinalizeBefore(ms, i, j) ==
  \/ ms[i].roundNumber > ms[j].roundNumber
  \/ /\ ms[i].roundNumber = ms[j].roundNumber
     /\ ms[i].matchNumber < ms[j].matchNumber

RECURSIVE FinalizeOrder(_, _)
FinalizeOrder(ms, ids) ==
  IF ids = {} THEN <<>>
  ELSE LET first == CHOOSE i \in ids : \A j \in ids \ {i} : ~FinalizeBefore(ms, j, i)
       IN <<first>> \o FinalizeOrder(ms, ids \ {first})

\* Math.max(...matches.map(m => m.roundNumber || 0))
MaxRound(ms) ==
  LET top == CHOOSE i \in DOMAIN ms : \A j \in DOMAIN ms : ms[j].roundNumber <= ms[i].roundNumber
  IN ms[top].roundNumber

BaseRankWithoutOffset(maxRound, roundNumber) == Pow2(maxRound - roundNumber)

\* baseRank = Math.pow(2, maxRound - roundNumber) + 1
BaseRank(maxRound, roundNumber) == Pow2(maxRound - roundNumber) + 1

\* one iteration of the loop over the matches: the teamRankings map after it
RankMatch(rankings, m, maxRound) ==
  IF m.winningAlliance = NULL THEN rankings
  ELSE LET winners == TeamsOf(Roster(m, m.winningAlliance))
           losers == TeamsOf(Roster(m, Other(m.winningAlliance)))
       IN IF m.roundNumber = maxRound
          THEN [t \in DOMAIN rankings |->
                  IF t \in losers THEN 2 ELSE IF t \in winners THEN 1 ELSE rankings[t]]
          ELSE [t \in DOMAIN rankings |->
                  IF t \in losers THEN BaseRank(maxRound, m.roundNumber) ELSE rankings[t]]

\* the teamRankings map after the loop over the matches in `order` (0 = no entry)
RECURSIVE TeamRankings(_, _, _)
TeamRankings(ms, order, rankings) ==
  IF order = <<>> THEN rankings
  ELSE TeamRankings(ms, Tail(order), RankMatch(rankings, ms[Head(order)], MaxRound(ms)))

FinalizeErrorNoStatusCheck(ms) ==
  IF ms = <<>> THEN "no_matches" ELSE "none"

\* the error thrown before the ranking loop, "none" when the stage passes
FinalizeError(ms) ==
  IF ms = <<>> THEN "no_matches"
  ELSE IF \E i \in DOMAIN ms : ms[i].status # COMPLETED THEN "incomplete"
  ELSE "none"

finalizePlayoffRankings ==
  LET err == FinalizeError(matches)
      rankings == TeamRankings(matches, FinalizeOrder(matches, DOMAIN matches),
                               [t \in 1..MaxTeams |-> 0])
  IN /\ IF err # "none"
        THEN /\ lastEnded' = Ended("finalize", err)
             /\ UNCHANGED rank
        ELSE /\ lastEnded' = Ended("finalize", "ok")
             /\ rank' = [t \in 1..MaxTeams |-> IF rankings[t] # 0 THEN rankings[t] ELSE rank[t]]
     /\ UNCHANGED <<teamStats, matches, pc, call, advanced>>

\* ------------------------------------------------------------ FrcScheduler

\* get teamsPerMatch() / get totalStations()
TeamsPerMatch(teamsPerAlliance) == teamsPerAlliance * AlliancesPerMatch
TotalStations(teamsPerAlliance) == teamsPerAlliance * AlliancesPerMatch

NoConfig == [numTeams |-> 0, teamsPerAlliance |-> 0, rounds |-> 0, maxIterations |-> 0,
             numFields |-> 0]

\* no generateFrcSchedule call
FrcIdle ==
  /\ config = NoConfig
  /\ phase = "idle"
  /\ schedule = <<>>
  /\ score = 0
  /\ bestSchedule = <<>>
  /\ bestScore = 0
  /\ iteration = 0
  /\ createdMatches = 0
  /\ lowestAccepted = 0

\* the arguments of a generateFrcSchedule call: every supported configuration
\* within the bounds, and the alliance sizes next to the supported range with
\* enough teams for one match of the larger one
FrcConfigs ==
  [numTeams : 1..MaxOptTeams, teamsPerAlliance : MinAllianceSize..MaxOptAlliance,
   rounds : 1..MaxOptRounds, maxIterations : 1..MaxIterations,
   numFields : {0, MaxFields}]
  \cup
  [numTeams : {AlliancesPerMatch * (MaxAllianceSize + 1)},
   teamsPerAlliance : {MinAllianceSize - 1, MaxAllianceSize + 1},
   rounds : {1}, maxIterations : {1}, numFields : {MaxFields}]

\* a generateFrcSchedule call with its arguments, before its first statement
FrcRequested ==
  /\ config \in FrcConfigs
  /\ phase = "requested"
  /\ schedule = <<>>
  /\ score = 0
  /\ bestSchedule = <<>>
  /\ bestScore = 0
  /\ iteration = 0
  /\ createdMatches = 0
  /\ lowestAccepted = 0

RECURSIVE SumSeq(_)
SumSeq(q) == IF q = <<>> THEN 0 ELSE Head(q) + SumSeq(Tail(q))

Abs(x) == IF x < 0 THEN -x ELSE x

\* number of positions of the array that hold team t
Count(alliance, t) == Cardinality({i \in DOMAIN alliance : alliance[i] = t})

\* Math.ceil((numTeams * rounds) / this.teamsPerMatch)
TotalMatches(numTeams, rounds, teamsPerAlliance) ==
  (numTeams * rounds + TeamsPerMatch(teamsPerAlliance) - 1) \div TeamsPerMatch(teamsPerAlliance)

\* even division: the k-th match pushed (matchNumber is k + 1 when the team
\* indexes are computed)
EvenMatch(numTeams, teamsPerAlliance, k) ==
  [ redAlliance |-> [i \in 1..teamsPerAlliance |->
      ((k * TeamsPerMatch(teamsPerAlliance) + (i - 1)) % numTeams) + 1],
    blueAlliance |-> [i \in 1..teamsPerAlliance |->
      ((k * TeamsPerMatch(teamsPerAlliance) + (i - 1) + teamsPerAlliance) % numTeams) + 1] ]

\* teams 1..numTeams sorted by teamAppearances ascending (the sort is stable)
SortedTeams(numTeams, teamAppearances) ==
  LET Before(u, t) == \/ teamAppearances[u] < teamAppearances[t]
                      \/ teamAppearances[u] = teamAppearances[t] /\ u < t
  IN [pos \in 1..numTeams |->
        CHOOSE t \in 1..numTeams :
          Cardinality({u \in 1..numTeams : Before(u, t)}) = pos - 1]

\* uneven division: the loop that takes the least-appeared teams first
RECURSIVE OddMatches(_, _, _, _, _)
OddMatches(numTeams, teamsPerAlliance, matchesNeeded, teamAppearances, built) ==
  IF matchesNeeded = 0 THEN built
  ELSE LET sortedTeams == SortedTeams(numTeams, teamAppearances)
           match == [ redAlliance |-> [i \in 1..teamsPerAlliance |-> sortedTeams[i]],
                      blueAlliance |-> [i \in 1..teamsPerAlliance |->
                                          sortedTeams[i + teamsPerAlliance]] ]
           counted == [t \in 1..numTeams |->
                         teamAppearances[t] + Count(match.redAlliance, t)
                                            + Count(match.blueAlliance, t)]
       IN OddMatches(numTeams, teamsPerAlliance, matchesNeeded - 1, counted,
                     Append(built, match))

\* generateInitialSchedule(numTeams, rounds).matches
InitialSchedule(numTeams, rounds, teamsPerAlliance) ==
  IF numTeams % TeamsPerMatch(teamsPerAlliance) = 0
  THEN [k \in 1..TotalMatches(numTeams, rounds, teamsPerAlliance) |->
          EvenMatch(numTeams, teamsPerAlliance, k)]
  ELSE OddMatches(numTeams, teamsPerAlliance,
                  TotalMatches(numTeams, rounds, teamsPerAlliance),
                  [t \in 1..numTeams |-> 0], <<>>)

\* updateTeamStats over all matches: stats.partners.get(p) of team t
Partners(ms, t, p) ==
  LET PairsIn(alliance) ==
        Cardinality({ij \in (DOMAIN alliance) \X (DOMAIN alliance) :
                       ij[1] # ij[2] /\ alliance[ij[1]] = t /\ alliance[ij[2]] = p})
  IN SumSeq([k \in DOMAIN ms |-> PairsIn(ms[k].redAlliance) + PairsIn(ms[k].blueAlliance)])

\* stats.opponents.get(o) of team t
Opponents(ms, t, o) ==
  SumSeq([k \in DOMAIN ms |->
            Count(ms[k].redAlliance, t) * Count(ms[k].blueAlliance, o)
          + Count(ms[k].blueAlliance, t) * Count(ms[k].redAlliance, o)])

\* stats.appearances of team t: the zero-based match index, once per station held
RECURSIVE Appearances(_, _, _)
Appearances(ms, t, k) ==
  IF k > Len(ms) THEN <<>>
  ELSE [i \in 1..(Count(ms[k].redAlliance, t) + Count(ms[k].blueAlliance, t)) |-> k - 1]
       \o Appearances(ms, t, k + 1)

RedCount(ms, t) == SumSeq([k \in DOMAIN ms |-> Count(ms[k].redAlliance, t)])
BlueCount(ms, t) == SumSeq([k \in DOMAIN ms |-> Count(ms[k].blueAlliance, t)])

\* stats.stationAppearances[station - 1]: red stations first, then blue
StationAppearances(ms, t, station) ==
  Cardinality({k \in DOMAIN ms : (ms[k].redAlliance \o ms[k].blueAlliance)[station] = t})

\* the penalty of a count of repeated partners or opponents, per unit of weight
RepeatPenalty(count) == IF count > 1 THEN count - 1 ELSE 0

\* the match-separation penalty of one team's appearances
SeparationPenalty(appearances, minMatchSeparation) ==
  SumSeq([i \in 1..(Len(appearances) - 1) |->
            LET separation == appearances[i + 1] - appearances[i]
            IN IF separation < minMatchSeparation
               THEN (minMatchSeparation - separation) * MatchSeparationViolation
               ELSE 0])

\* calculateScheduleScore, times 2 * totalStations so that it stays an integer
calculateScheduleScore(ms, numTeams, teamsPerAlliance, minMatchSeparation) ==
  LET totalStations == TotalStations(teamsPerAlliance)
      appearancesOf(t) == Appearances(ms, t, 1)
      TeamScore(t) ==
        2 * totalStations *
          ( PartnerRepeat * SumSeq([p \in 1..numTeams |-> RepeatPenalty(Partners(ms, t, p))])
          + OpponentRepeat * SumSeq([o \in 1..numTeams |-> RepeatPenalty(Opponents(ms, t, o))])
          + SeparationPenalty(appearancesOf(t), minMatchSeparation)
          + RedBlueImbalance * Abs(RedCount(ms, t) - BlueCount(ms, t)) )
        + StationImbalanceHalves *
            SumSeq([station \in 1..totalStations |->
                      Abs(StationAppearances(ms, t, station) * totalStations
                          - Len(appearancesOf(t)))])
  IN SumSeq([t \in 1..numTeams |-> TeamScore(t)])

\* match[alliance][pos], pos from 1
TeamAt(match, alliance, pos) ==
  IF alliance = RED THEN match.redAlliance[pos] ELSE match.blueAlliance[pos]

\* match with match[alliance][pos] = team
WithTeamAt(match, alliance, pos, team) ==
  IF alliance = RED THEN [match EXCEPT !.redAlliance[pos] = team]
  ELSE [match EXCEPT !.blueAlliance[pos] = team]

\* a variant of generateNeighborSchedule that copies match2's team into match1
\* and leaves match2 as it was
generateNeighborScheduleCopy(ms, match1Index, match2Index, alliance1, alliance2, pos1, pos2) ==
  IF Len(ms) >= 2
  THEN [ms EXCEPT
          ![match1Index] = WithTeamAt(@, alliance1, pos1,
                                      TeamAt(ms[match2Index], alliance2, pos2))]
  ELSE ms

\* generateNeighborSchedule with the random draws match1Index, match2Index,
\* alliance1, alliance2, pos1, pos2
generateNeighborSchedule(ms, match1Index, match2Index, alliance1, alliance2, pos1, pos2) ==
  IF Len(ms) >= 2
  THEN [ms EXCEPT
          ![match1Index] = WithTeamAt(@, alliance1, pos1,
                                      TeamAt(ms[match2Index], alliance2, pos2)),
          ![match2Index] = WithTeamAt(@, alliance2, pos2,
                                      TeamAt(ms[match1Index], alliance1, pos1))]
  ELSE ms

\* number of times temperature *= coolingRate ran before iteration `it`
Coolings(it) == (it + IterationsPerTemperature - 1) \div IterationsPerTemperature

\* temperature > this.config.simulatedAnnealing.minTemperature
TemperatureAboveMin(it) == Coolings(it) < CoolingsToMinTemperature

\* acceptanceProbability > Math.random(): certain when the neighbor scores no
\* more than the active schedule (probability 1), a matter of the draw
\* otherwise (exp(-scoreDelta / temperature) lies strictly between 0 and 1)
Accepted(currentScore, newScore, draw) ==
  IF newScore <= currentScore THEN TRUE ELSE draw

ImprovesBestWheneverAccepted(newScore, best) == TRUE

\* schedule.score < bestScore
ImprovesBest(newScore, best) == newScore < best

NoFieldsNever(fieldCount) == FALSE

\* !fields || fields.length === 0
NoFields(fieldCount) == fieldCount = 0

\* lines 92-117 and 224-227: the checks of the fields and of the team count,
\* generateInitialSchedule and the first statements of optimizeSchedule.  With
\* teamsPerAlliance = 0, totalMatches is Infinity and the loop of
\* generateInitialSchedule (486-519) never ends.
generateFrcSchedule ==
  /\ phase = "requested"
  /\ IF NoFields(config.numFields)
     THEN /\ phase' = "no_fields"
          /\ UNCHANGED <<schedule, score, bestSchedule, bestScore, iteration,
                         lowestAccepted>>
     ELSE IF config.numTeams < TeamsPerMatch(config.teamsPerAlliance)
     THEN /\ phase' = "not_enough_teams"
          /\ UNCHANGED <<schedule, score, bestSchedule, bestScore, iteration,
                         lowestAccepted>>
     ELSE IF TeamsPerMatch(config.teamsPerAlliance) = 0
     THEN /\ phase' = "diverging"
          /\ UNCHANGED <<schedule, score, bestSchedule, bestScore, iteration,
                         lowestAccepted>>
     ELSE LET initial == InitialSchedule(config.numTeams, config.rounds,
                                         config.teamsPerAlliance)
              initialScore == calculateScheduleScore(initial, config.numTeams,
                                config.teamsPerAlliance, MinMatchSeparation)
          IN /\ schedule' = initial
             /\ score' = initialScore
             /\ bestSchedule' = initial
             /\ bestScore' = initialScore
             /\ iteration' = 0
             /\ lowestAccepted' = initialScore
             /\ phase' = "annealing"
  /\ UNCHANGED <<config, createdMatches>>

\* lines 229-250: one iteration of the annealing loop
optimizeStep(match1Index, match2Index, alliance1, alliance2, pos1, pos2, draw) ==
  /\ phase = "annealing"
  /\ iteration < config.maxIterations
  /\ TemperatureAboveMin(iteration)
  /\ Len(schedule) >= 2 => match1Index # match2Index
  /\ LET neighbor == generateNeighborSchedule(schedule, match1Index, match2Index,
                                              alliance1, alliance2, pos1, pos2)
         neighborScore == calculateScheduleScore(neighbor, config.numTeams,
                            config.teamsPerAlliance, MinMatchSeparation)
     IN IF Accepted(score, neighborScore, draw)
        THEN /\ schedule' = neighbor
             /\ score' = neighborScore
             /\ lowestAccepted' = IF neighborScore < lowestAccepted
                                  THEN neighborScore ELSE lowestAccepted
             /\ IF ImprovesBest(neighborScore, bestScore)
                THEN bestSchedule' = neighbor /\ bestScore' = neighborScore
                ELSE UNCHANGED <<bestSchedule, bestScore>>
        ELSE UNCHANGED <<schedule, score, bestSchedule, bestScore, lowestAccepted>>
  /\ iteration' = iteration + 1
  /\ UNCHANGED <<config, phase, createdMatches>>

\* line 252: the loop is over, return bestSchedule
optimizeReturn ==
  /\ phase = "annealing"
  /\ ~(iteration < config.maxIterations /\ TemperatureAboveMin(iteration))
  /\ phase' = "returned"
  /\ UNCHANGED <<config, schedule, score, bestSchedule, bestScore, iteration,
                 createdMatches, lowestAccepted>>

\* the Match row of prisma.match.create (139-180): the team of index idx of an
\* alliance takes station idx + 1
FrcMatchRow(match, matchNumber) ==
  [ roundNumber |-> 1,
    matchNumber |-> matchNumber,
    bracketSlot |-> 0,
    status |-> PENDING,
    winningAlliance |-> NULL,
    feedsIntoMatchId |-> 0,
    red |-> [i \in DOMAIN match.redAlliance |-> Row(match.redAlliance[i], i)],
    blue |-> [i \in DOMAIN match.blueAlliance |-> Row(match.blueAlliance[i], i)] ]

\* lines 119-183: one turn of the loop over schedule.matches, the return after
\* the last one; matchNumber starts at 1 in every call
createMatch ==
  /\ phase = "returned"
  /\ createdMatches < Len(bestSchedule)
  /\ matches' = Append(matches, FrcMatchRow(bestSchedule[createdMatches + 1],
                                            createdMatches + 1))
  /\ createdMatches' = createdMatches + 1
  /\ phase' = IF createdMatches + 1 = Len(bestSchedule) THEN "done" ELSE "returned"
  /\ UNCHANGED <<config, schedule, score, bestSchedule, bestScore, iteration,
                 lowestAccepted>>
  /\ UNCHANGED <<teamStats, rank, pc, call, advanced, lastEnded>>

\* prisma.match.create rejects: the error leaves generateFrcSchedule, the rows
\* created so far stay
createMatchFails ==
  /\ phase = "returned"
  /\ createdMatches < Len(bestSchedule)
  /\ phase' = "create_failed"
  /\ UNCHANGED <<config, schedule, score, bestSchedule, bestScore, iteration,
                 createdMatches, lowestAccepted>>
  /\ UNCHANGED vars

\* ------------------------------------------------ SwissSchedulingStrategy

\* a TeamStats row: the fields sortTeamsByTiebreakers and getSwissRankings read
SwissStats(rankingPoints) ==
  [rankingPoints |-> rankingPoints, opponentWinPercentage |-> 0, pointDifferential |-> 0,
   matchesPlayed |-> 0]

\* a Match row of the Swiss stage
SwissMatchRow(matchNumber, redTeams, blueTeams) ==
  [ matchNumber |-> matchNumber,
    status |-> PENDING,
    red |-> [i \in DOMAIN redTeams |-> Row(redTeams[i], i)],
    blue |-> [i \in DOMAIN blueTeams |-> Row(blueTeams[i], i)] ]

\* the unordered pairs of teams 1..numTeams, as <<a, b>> with a < b
TeamPairs(numTeams) == {ab \in (1..numTeams) \X (1..numTeams) : ab[1] < ab[2]}

\* the pairs of a set in ascending order
RECURSIVE PairSeq(_)
PairSeq(pairs) ==
  IF pairs = {} THEN <<>>
  ELSE LET first == CHOOSE ab \in pairs :
                      \A cd \in pairs : ab[1] < cd[1] \/ (ab[1] = cd[1] /\ ab[2] <= cd[2])
       IN <<first>> \o PairSeq(pairs \ {first})

\* a stage whose earlier rounds were one-against-one matches of the given pairs
EarlierMatches(pairs) ==
  LET q == PairSeq(pairs)
  IN [k \in DOMAIN q |-> SwissMatchRow(k, <<q[k][1]>>, <<q[k][2]>>)]

\* the permutations of 1..n as sequences
RowOrders(n) == {q \in [1..n -> 1..n] : \A i, j \in 1..n : i # j => q[i] # q[j]}

\* the orderBy of getSwissRankings: rankingPoints, opponentWinPercentage,
\* pointDifferential, matchesPlayed, all descending
OrderByKey(row) ==
  <<row.rankingPoints, row.opponentWinPercentage, row.pointDifferential, row.matchesPlayed>>

\* key1 does not come after key2 under the orderBy
NotAfter(key1, key2) ==
  \/ key1 = key2
  \/ \E i \in DOMAIN key1 : key1[i] > key2[i] /\ \A j \in 1..(i - 1) : key1[j] = key2[j]

\* getSwissRankings: the rows in the orderBy's order; rows equal in all its
\* keys come in the order the database picks
RankingOrders(stats) ==
  {q \in RowOrders(Len(stats)) :
     \A i \in 1..(Len(stats) - 1) :
       NotAfter(OrderByKey(stats[q[i]]), OrderByKey(stats[q[i + 1]]))}

NoSwissCall == [teamsPerAlliance |-> 0]

\* no generateMatches call
SwissIdle ==
  /\ swiss = NoSwissCall
  /\ swissTeamStats = <<>>
  /\ swissRankings = <<>>
  /\ swissStage = <<>>
  /\ swissPhase = "idle"
  /\ swissCreated = 0

\* the TeamStats rows of n teams, team ids in the order of their ranking points
StandingsOf(n) ==
  {st \in [1..n -> {SwissStats(p) : p \in 0..MaxPoints}] :
     \A t \in 1..(n - 1) : st[t].rankingPoints >= st[t + 1].rankingPoints}

\* a generateMatches call before its first statement, on a tournament with
\* fields: a supported alliance size, for every standing and every set of
\* pairs that met within the bounds; or an alliance size next to the supported
\* range, on a stage of MaxSwissTeams teams with no earlier match
SwissRequested ==
  /\ swissPhase = "requested"
  /\ swissCreated = 0
  /\ \E n \in 1..MaxSwissTeams :
       /\ swissTeamStats \in StandingsOf(n)
       /\ \/ /\ swiss \in [teamsPerAlliance : MinAllianceSize..MaxSwissAlliance]
             /\ swissStage \in {EarlierMatches(pairs) : pairs \in SUBSET TeamPairs(n)}
          \/ /\ n = MaxSwissTeams
             /\ swiss \in [teamsPerAlliance : {MinAllianceSize - 1, MaxAllianceSize + 1}]
             /\ swissStage = <<>>
  /\ swissRankings \in RankingOrders(swissTeamStats)

\* getPreviousOpponents: for every team, the other teams of the matches it
\* was in, on either side
getPreviousOpponents(rows, numTeams) ==
  [t \in 1..numTeams |->
     {u \in 1..numTeams :
        /\ u # t
        /\ \E k \in DOMAIN rows :
             {t, u} \subseteq TeamsOf(rows[k].red) \cup TeamsOf(rows[k].blue)}]

\* calculateRepeatMatchupPenalty
calculateRepeatMatchupPenalty(redTeams, blueTeams, previousOpponents) ==
  Cardinality({ij \in (DOMAIN redTeams) \X (DOMAIN blueTeams) :
                 blueTeams[ij[2]] \in previousOpponents[redTeams[ij[1]]]})

\* matchTeams.filter((_, idx) => !redIndices.has(idx)), from index idx on
RECURSIVE FilterIndexes(_, _, _)
FilterIndexes(matchTeams, redIndices, idx) ==
  IF idx >= Len(matchTeams) THEN <<>>
  ELSE (IF idx \in redIndices THEN <<>> ELSE <<matchTeams[idx + 1]>>)
       \o FilterIndexes(matchTeams, redIndices, idx + 1)

\* the split of matchTeams that takes the indexes of combo as red
SplitOf(matchTeams, combo) ==
  LET redIndices == {combo[i] : i \in DOMAIN combo}
  IN [red |-> [i \in DOMAIN combo |-> matchTeams[combo[i] + 1]],
      blue |-> FilterIndexes(matchTeams, redIndices, 0)]

LowerPenaltyNever(penalty, lowestPenalty) == FALSE

\* penalty < lowestPenalty
LowerPenalty(penalty, lowestPenalty) == penalty < lowestPenalty

\* choose(start) with the combination built so far, and its for loop from
\* index i; best is lowestPenalty, bestRed, bestBlue
RECURSIVE choose(_, _, _, _, _, _), chooseLoop(_, _, _, _, _, _)
choose(start, combo, best, matchTeams, previousOpponents, teamsPerAlliance) ==
  IF Len(combo) = teamsPerAlliance
  THEN LET split == SplitOf(matchTeams, combo)
           penalty == calculateRepeatMatchupPenalty(split.red, split.blue, previousOpponents)
       IN IF LowerPenalty(penalty, best.lowestPenalty)
          THEN [lowestPenalty |-> penalty, red |-> split.red, blue |-> split.blue]
          ELSE best
  ELSE IF best.lowestPenalty = 0 THEN best
  ELSE chooseLoop(start, combo, best, matchTeams, previousOpponents, teamsPerAlliance)

chooseLoop(i, combo, best, matchTeams, previousOpponents, teamsPerAlliance) ==
  IF i > 2 * teamsPerAlliance - (teamsPerAlliance - Len(combo)) THEN best
  ELSE LET after == choose(i + 1, Append(combo, i), best, matchTeams,
                           previousOpponents, teamsPerAlliance)
       IN IF after.lowestPenalty = 0 THEN after
          ELSE chooseLoop(i + 1, combo, after, matchTeams, previousOpponents,
                          teamsPerAlliance)

\* optimizeAllianceAssignment: [bestRed, bestBlue]
optimizeAllianceAssignment(matchTeams, previousOpponents, teamsPerAlliance) ==
  LET defaultRed == SubSeq(matchTeams, 1, teamsPerAlliance)
      defaultBlue == SubSeq(matchTeams, teamsPerAlliance + 1, 2 * teamsPerAlliance)
      baseline == [lowestPenalty |->
                     calculateRepeatMatchupPenalty(defaultRed, defaultBlue, previousOpponents),
                   red |-> defaultRed, blue |-> defaultBlue]
  IN choose(0, <<>>, baseline, matchTeams, previousOpponents, teamsPerAlliance)

\* opponentWinPercentage is held in ten-thousandths; 0.001 in that unit
OwpTolerance == 10

\* the comparator of sortTeamsByTiebreakers on two TeamStats rows, as its sign;
\* opponentWinPercentage counts when the two differ by more than 0.001
CompareTiebreakers(a, b) ==
  IF b.rankingPoints # a.rankingPoints THEN b.rankingPoints - a.rankingPoints
  ELSE IF Abs(b.opponentWinPercentage - a.opponentWinPercentage) > OwpTolerance
       THEN b.opponentWinPercentage - a.opponentWinPercentage
  ELSE b.pointDifferential - a.pointDifferential

\* sortTeamsByTiebreakers: [...teams].sort(comparator), a stable sort
sortTeamsByTiebreakers(order, stats) ==
  LET Before(i, j) ==
        \/ CompareTiebreakers(stats[order[i]], stats[order[j]]) < 0
        \/ CompareTiebreakers(stats[order[i]], stats[order[j]]) = 0 /\ i < j
  IN [pos \in DOMAIN order |->
        order[CHOOSE j \in DOMAIN order :
                Cardinality({i \in DOMAIN order : Before(i, j)}) = pos - 1]]

\* the teams of the Match rows
PairedTeams(rows) ==
  UNION {TeamsOf(rows[k].red) \cup TeamsOf(rows[k].blue) : k \in DOMAIN rows}

AvailableTeamsUnfiltered(sortedTeams, paired) == sortedTeams

\* sortedTeams.filter(team => !paired.has(team.teamId))
RECURSIVE AvailableTeams(_, _)
AvailableTeams(sortedTeams, paired) ==
  IF sortedTeams = <<>> THEN <<>>
  ELSE (IF Head(sortedTeams) \in paired THEN <<>> ELSE <<Head(sortedTeams)>>)
       \o AvailableTeams(Tail(sortedTeams), paired)

\* the loop of generateSwissMatches goes on: i + teamsPerMatch fits in
\* sortedTeams and teamsPerMatch unpaired teams are left
LoopGoesOn(sortedTeams, created, teamsPerAlliance) ==
  /\ Len(created) * 2 * teamsPerAlliance + 2 * teamsPerAlliance <= Len(sortedTeams)
  /\ Len(AvailableTeams(sortedTeams, PairedTeams(created))) >= 2 * teamsPerAlliance

\* matchNumber: existingMatches[0].matchNumber + 1, or 1; then matchNumber++
SwissMatchNumber(earlier, created) ==
  (IF earlier = <<>> THEN 1 ELSE NextMatchNumber(earlier)) + created

\* the Match row one turn of the loop creates
NextSwissMatch(sortedTeams, earlier, created, numTeams, teamsPerAlliance) ==
  LET availableTeams == AvailableTeams(sortedTeams, PairedTeams(created))
      matchTeams == SubSeq(availableTeams, 1, 2 * teamsPerAlliance)
      split == optimizeAllianceAssignment(matchTeams,
                 getPreviousOpponents(earlier, numTeams), teamsPerAlliance)
  IN SwissMatchRow(SwissMatchNumber(earlier, Len(created)), split.red, split.blue)

\* the Match rows of the stage the call found / the rows it created
EarlierRows == SubSeq(swissStage, 1, Len(swissStage) - swissCreated)
SwissCreatedRows == SubSeq(swissStage, Len(swissStage) - swissCreated + 1, Len(swissStage))

\* lines 32-53 and 120-135: the check of the alliance size, the reads, the sort
generateMatches ==
  /\ swissPhase = "requested"
  /\ swissPhase' =
       IF swiss.teamsPerAlliance < MinAllianceSize \/ swiss.teamsPerAlliance > MaxAllianceSize
       THEN "invalid_alliance_size"
       ELSE IF LoopGoesOn(sortTeamsByTiebreakers(swissRankings, swissTeamStats), <<>>,
                          swiss.teamsPerAlliance)
       THEN "pairing" ELSE "done"
  /\ UNCHANGED <<swiss, swissTeamStats, swissRankings, swissStage, swissCreated>>

\* lines 140-185: one turn of the loop, createSwissMatch included; the
\* return when the loop does not go on
createSwissMatch ==
  /\ swissPhase = "pairing"
  /\ LET sortedTeams == sortTeamsByTiebreakers(swissRankings, swissTeamStats)
         row == NextSwissMatch(sortedTeams, EarlierRows, SwissCreatedRows,
                               Len(swissTeamStats), swiss.teamsPerAlliance)
     IN /\ swissStage' = Append(swissStage, row)
        /\ swissCreated' = swissCreated + 1
        /\ swissPhase' = IF LoopGoesOn(sortedTeams, Append(SwissCreatedRows, row),
                                       swiss.teamsPerAlliance)
                         THEN "pairing" ELSE "done"
  /\ UNCHANGED <<swiss, swissTeamStats, swissRankings>>

\* prisma.match.create rejects inside createSwissMatch: the error leaves
\* generateMatches, the rows created so far stay
createSwissMatchFails ==
  /\ swissPhase = "pairing"
  /\ swissPhase' = "create_failed"
  /\ UNCHANGED <<swiss, swissTeamStats, swissRankings, swissStage, swissCreated>>

\* ------------------------------------------------------ SwissScheduler

\* the stage whose standings are refreshed, another stage of the tournament,
\* and no stage (TeamStats.stageId is null)
ThisStage == "this"
OtherStage == "other"

RankTeams == 1..MaxRankTeams

\* a Match row of the stage with its alliances' teamAlliances and scores
StageMatch(status, redTeams, blueTeams, scoreRed, scoreBlue) ==
  [status |-> status, red |-> redTeams, blue |-> blueTeams,
   scoreRed |-> scoreRed, scoreBlue |-> scoreBlue]

\* the Match rows a stage can hold: one team per alliance, as created by the
\* Swiss round or by generateFrcSchedule, whose swaps can leave one team on
\* both sides
StageMatches ==
  {StageMatch(status, <<redTeam>>, <<blueTeam>>, scoreRed, scoreBlue) :
     status \in {PENDING, IN_PROGRESS, COMPLETED}, redTeam \in RankTeams,
     blueTeam \in RankTeams, scoreRed \in 0..MaxScore, scoreBlue \in 0..MaxScore}

\* the entry of teamResults before the loop over the completed matches
NoResult == [wins |-> 0, losses |-> 0, ties |-> 0, pointsScored |-> 0, pointsConceded |-> 0]

\* the number of places a team has in a roster
Places(roster, teamId) == Cardinality({i \in DOMAIN roster : roster[i] = teamId})

\* lines 120-141: what one completed match adds to the result of a team, once
\* for every place it has in redTeams and in blueTeams
AddMatch(result, match, teamId) ==
  LET inRed == Places(match.red, teamId)
      inBlue == Places(match.blue, teamId)
      redOutcome == IF match.scoreRed > match.scoreBlue THEN "win"
                    ELSE IF match.scoreRed < match.scoreBlue THEN "loss" ELSE "tie"
      blueOutcome == IF match.scoreBlue > match.scoreRed THEN "win"
                     ELSE IF match.scoreBlue < match.scoreRed THEN "loss" ELSE "tie"
      Outcomes(outcome) == (IF redOutcome = outcome THEN inRed ELSE 0)
                        + (IF blueOutcome = outcome THEN inBlue ELSE 0)
  IN [wins |-> result.wins + Outcomes("win"),
      losses |-> result.losses + Outcomes("loss"),
      ties |-> result.ties + Outcomes("tie"),
      pointsScored |-> result.pointsScored + inRed * match.scoreRed + inBlue * match.scoreBlue,
      pointsConceded |-> result.pointsConceded + inRed * match.scoreBlue
                           + inBlue * match.scoreRed]

\* teamResults.get(teamId) after the loop over completedMatches, taken over
\* the first k matches of the stage
RECURSIVE TeamResult(_, _, _)
TeamResult(ms, k, teamId) ==
  IF k = 0 THEN NoResult
  ELSE IF ms[k].status = COMPLETED
       THEN AddMatch(TeamResult(ms, k - 1, teamId), ms[k], teamId)
       ELSE TeamResult(ms, k - 1, teamId)

\* rankingPoints = result.wins * 2 + result.ties
RankingPointsOf(wins, ties) == wins * 2 + ties

\* the TeamStats row the upsert writes; opponentWinPercentage is the
\* fraction losses / totalMatches, 0 when the team played no match
StatsRow(result, stageId) ==
  LET totalMatches == result.wins + result.losses + result.ties
  IN [stageId |-> stageId,
      wins |-> result.wins,
      losses |-> result.losses,
      ties |-> result.ties,
      pointsScored |-> result.pointsScored,
      pointsConceded |-> result.pointsConceded,
      matchesPlayed |-> totalMatches,
      rankingPoints |-> RankingPointsOf(result.wins, result.ties),
      opponentWinPercentage |->
        IF totalMatches > 0 THEN [num |-> result.losses, den |-> totalMatches]
        ELSE [num |-> 0, den |-> 1],
      pointDifferential |-> result.pointsScored - result.pointsConceded]

\* teamStats.findMany({ where: { stageId } }): the teams with a row of the stage
StageRows(stats) == {t \in DOMAIN stats : stats[t].stageId = ThisStage}

\* lines 34-75: with no row of the stage, every team of the tournament that has
\* no row gets one, and a row without a stage gets the stage's id; a row of
\* another stage is left alone
EnsureRows(stats) ==
  IF StageRows(stats) # {} THEN stats
  ELSE [t \in RankTeams |->
          IF t \notin DOMAIN stats THEN StatsRow(NoResult, ThisStage)
          ELSE IF stats[t].stageId = NULL THEN [stats[t] EXCEPT !.stageId = ThisStage]
          ELSE stats[t]]

\* SwissScheduler.updateSwissRankings
updateSwissRankings ==
  /\ refreshCalls < MaxRefresh
  /\ LET ensured == EnsureRows(stageStats)
     IN stageStats' =
          [t \in DOMAIN ensured |->
             IF t \in StageRows(ensured)
             THEN StatsRow(TeamResult(stageMatches, Len(stageMatches), t), ThisStage)
             ELSE ensured[t]]
  /\ refreshCalls' = refreshCalls + 1
  /\ UNCHANGED stageMatches

\* no updateSwissRankings call
RankIdle ==
  /\ stageMatches = <<>>
  /\ stageStats = <<>>
  /\ refreshCalls = 0

\* a stage with up to MaxRankMatches matches in any status, in a tournament
\* whose teams have no TeamStats row, or rows of this stage, of no stage or of
\* another stage
RankRequested ==
  /\ \E n \in 0..MaxRankMatches : stageMatches \in [1..n -> StageMatches]
  /\ \/ stageStats = <<>>
     \/ \E stageId \in {ThisStage, NULL, OtherStage} :
          stageStats = [t \in RankTeams |-> StatsRow(NoResult, stageId)]
  /\ refreshCalls = 0

\* ------------------------------------- MatchSchedulerService.generateFrcSchedule

\* the fields of FrcSchedulerConfig a request can set: alliance size, round
\* count, quality tier, and the partnerRepeat penalty for the penalties
SchedulerConfig(teamsPerAlliance, rounds, qualityLevel, partnerRepeat) ==
  [teamsPerAlliance |-> teamsPerAlliance, rounds |-> rounds,
   qualityLevel |-> qualityLevel, partnerRepeat |-> partnerRepeat]

\* DEFAULT_FRC_CONFIG
DEFAULT_FRC_CONFIG == SchedulerConfig(3, 6, "good", 3)

\* PRESET_CONFIGS.frcSmall, PRESET_CONFIGS.current1v1
PresetConfig(preset) ==
  IF preset = "frcSmall" THEN SchedulerConfig(3, 8, "best", 3)
  ELSE SchedulerConfig(1, 6, "good", 0)

Presets == {"frcSmall", "current1v1"}

\* the stage's teamsPerAlliance
StageTeamsPerAlliance == 2

\* a numeric argument that is not given
Undefined == -1

\* the arguments of a request: preset (NULL when not given), config (a partial
\* configuration that sets penalties.partnerRepeat, or none), rounds,
\* teamsPerAlliance, qualityLevel (medium when not given)
RequestArgs ==
  [preset : Presets \cup {NULL}, partnerRepeat : {Undefined, 5}, rounds : {Undefined, 2},
   teamsPerAlliance : {Undefined, 1}, qualityLevel : {"medium", "high"}]

NoArgs ==
  [preset |-> NULL, partnerRepeat |-> Undefined, rounds |-> Undefined,
   teamsPerAlliance |-> Undefined, qualityLevel |-> "medium"]

Requests == 1..MaxRequests

\* lines 82-90 of the service: loadPreset replaces the configuration by the
\* preset merged over the default; setConfig merges the given values over the
\* current configuration
ApplyPresetAndConfig(current, args) ==
  LET loaded == IF args.preset # NULL THEN PresetConfig(args.preset) ELSE current
  IN IF args.partnerRepeat # Undefined
     THEN [loaded EXCEPT !.partnerRepeat = args.partnerRepeat]
     ELSE loaded

\* qualityMap of FrcScheduler.generateFrcSchedule
QualityMap(qualityLevel) ==
  IF qualityLevel = "low" THEN "fair" ELSE IF qualityLevel = "medium" THEN "good" ELSE "best"

\* lines 96-106 of the service and 73-90 of the scheduler: the alliance size is
\* set, rounds is set when given, the quality tier is set
ApplyParameters(current, args) ==
  [current EXCEPT
     !.teamsPerAlliance = IF args.teamsPerAlliance # Undefined THEN args.teamsPerAlliance
                          ELSE StageTeamsPerAlliance,
     !.rounds = IF args.rounds # Undefined THEN args.rounds ELSE current.rounds,
     !.qualityLevel = QualityMap(args.qualityLevel)]

\* generateFrcSchedule of the service up to await getStageWithDetails
BeginRequest(r, args) ==
  /\ request[r].pc = "idle"
  /\ schedulerConfig' = ApplyPresetAndConfig(schedulerConfig, args)
  /\ request' = [request EXCEPT ![r] = [args |-> args, pc |-> "awaiting",
                                        used |-> request[r].used]]

\* the rest of generateFrcSchedule after the await, and the scheduler's
\* generateFrcSchedule up to its first await: the schedule is computed with
\* this.config
ComputeSchedule(r) ==
  /\ request[r].pc = "awaiting"
  /\ schedulerConfig' = ApplyParameters(schedulerConfig, request[r].args)
  /\ request' = [request EXCEPT ![r].pc = "done", ![r].used = schedulerConfig']

\* no request
CfgIdle ==
  /\ schedulerConfig = DEFAULT_FRC_CONFIG
  /\ request = [r \in Requests |-> [args |-> NoArgs, pc |-> "idle", used |-> DEFAULT_FRC_CONFIG]]

\* ------------------------------------------------- sortTeamsByTiebreakers

\* opponentWinPercentage values, in ten-thousandths: 0, 0.0005 and 0.003.  The
\* first two are within the comparator's tolerance of each other and the third
\* is outside it of both, so the comparator orders the rows consistently
OwpValues == {0, 5, 30}

\* the TeamStats rows the sort can be handed
SortRows ==
  [rankingPoints : 0..MaxPoints, opponentWinPercentage : OwpValues,
   pointDifferential : 0..MaxPoints, matchesPlayed : {0}]

\* no sort
SortIdle ==
  /\ sortStats = <<>>
  /\ sortOrder = <<>>
  /\ sortResult = <<>>

\* the rows of 2..MaxSortTeams teams as getSwissRankings returns them
SortRequested ==
  /\ \E n \in 2..MaxSortTeams : sortStats \in [1..n -> SortRows]
  /\ sortOrder \in RankingOrders(sortStats)
  /\ sortResult = <<>>

\* const sortedTeams = this.sortTeamsByTiebreakers(teamStats)
SortTeams ==
  /\ sortResult = <<>>
  /\ sortResult' = sortTeamsByTiebreakers(sortOrder, sortStats)
  /\ UNCHANGED <<sortStats, sortOrder>>

\* ------------------------------------------------------- field assignment

\* Math.min(...fieldAssignmentCounts)
MinCount(counts) ==
  CHOOSE c \in {counts[idx] : idx \in DOMAIN counts} :
    \A idx \in DOMAIN counts : c <= counts[idx]

\* a variant of candidateIndexes that keeps every index
candidateIndexesAll(counts) == DOMAIN counts

\* fieldAssignmentCounts.map((count, idx) => count === minCount ? idx : -1)
\*   .filter(idx => idx !== -1), as a set of indexes from 1
candidateIndexes(counts) == {idx \in DOMAIN counts : counts[idx] = MinCount(counts)}

\* no generation run
FieldsIdle ==
  /\ shuffledFields = <<>>
  /\ fieldAssignmentCounts = <<>>
  /\ matchFields = <<>>

\* lines 100-101: the fields in some order, every counter 0
FieldsShuffled ==
  /\ \E n \in 1..MaxBalancedFields : shuffledFields \in RowOrders(n)
  /\ fieldAssignmentCounts = [idx \in DOMAIN shuffledFields |-> 0]
  /\ matchFields = <<>>

\* lines 127-132 and 139-180: one turn of the loop over schedule.matches, with
\* chosenIdx the random choice among candidateIndexes
assignField(chosenIdx) ==
  /\ Len(matchFields) < MaxAssignments
  /\ chosenIdx \in candidateIndexes(fieldAssignmentCounts)
  /\ fieldAssignmentCounts' = [fieldAssignmentCounts EXCEPT ![chosenIdx] = @ + 1]
  /\ matchFields' = Append(matchFields, shuffledFields[chosenIdx])
  /\ UNCHANGED shuffledFields

\* --------------------------------------------- MatchChangeDetectionService

MatchStates == {PENDING, IN_PROGRESS, COMPLETED}
StageTypes == {SWISS, PLAYOFF, FINAL}

\* no recordMatchChange call
NoChange == [pc |-> "idle", matchId |-> 0, previousStatus |-> NULL, newStatus |-> NULL,
             stageType |-> NULL, result |-> "none"]

\* the MatchChangeEvent stored for a match
ChangeEvent(matchId, previousStatus, newStatus) ==
  [matchId |-> matchId, previousStatus |-> previousStatus, newStatus |-> newStatus]

\* this.recentChanges.set(matchId, changeEvent)
SetChange(changes, event) ==
  {old \in changes : old.matchId # event.matchId} \cup {event}

\* a variant of MatchWasCompleted that does not look at previousStatus
MatchWasCompletedAnyPrevious(previousStatus, newStatus) == newStatus = COMPLETED

\* newStatus === MatchState.COMPLETED && previousStatus !== MatchState.COMPLETED
MatchWasCompleted(previousStatus, newStatus) ==
  newStatus = COMPLETED /\ previousStatus # COMPLETED

ChangeIdle ==
  /\ recentChanges = {}
  /\ change = NoChange
  /\ advanceCalls = 0
  /\ rankingCalls = 0
  /\ changeCount = 0

\* the call has returned to its caller: its locals are gone
ChangeReturned == [NoChange EXCEPT !.result = "returned"]

\* lines 96-156: the match is read with its stage, the event is stored, and the
\* stage type decides which trigger runs; a match that is not found is logged
\* and nothing is stored
recordMatchChange(matchId, previousStatus, newStatus, stageType) ==
  /\ change.pc = "idle"
  /\ changeCount < MaxChanges
  /\ changeCount' = changeCount + 1
  /\ advanceCalls' = 0
  /\ rankingCalls' = 0
  /\ LET begun == [pc |-> "idle", matchId |-> matchId, previousStatus |-> previousStatus,
                  newStatus |-> newStatus, stageType |-> stageType, result |-> "none"]
     IN IF matchId \notin DOMAIN matches
        THEN /\ change' = ChangeReturned
             /\ UNCHANGED recentChanges
        ELSE /\ recentChanges' = SetChange(recentChanges,
                                           ChangeEvent(matchId, previousStatus, newStatus))
             /\ change' =
                  IF MatchWasCompleted(previousStatus, newStatus) /\ stageType = SWISS
                  THEN [begun EXCEPT !.pc = "ranking"]
                  ELSE IF MatchWasCompleted(previousStatus, newStatus) /\ stageType = PLAYOFF
                  THEN [begun EXCEPT !.pc = "bracket"]
                  ELSE ChangeReturned
  /\ UNCHANGED vars

\* lines 166-189: calculateAndWriteRankings is called; an error it throws is
\* logged
triggerRankingRecalculation ==
  /\ change.pc = "ranking"
  /\ rankingCalls' = rankingCalls + 1
  /\ change' = ChangeReturned
  /\ UNCHANGED <<recentChanges, advanceCalls, changeCount>>
  /\ UNCHANGED vars

\* lines 194-211: the stage is read again, its type being stageNow; for a
\* playoff stage updatePlayoffBrackets is called, and an error of its
\* validation is logged (216-221)
triggerPlayoffBracketUpdate(stageNow) ==
  /\ change.pc = "bracket"
  /\ IF stageNow # PLAYOFF
     THEN /\ change' = ChangeReturned
          /\ UNCHANGED advanceCalls
          /\ UNCHANGED vars
     ELSE /\ advanceCalls' = advanceCalls + 1
          /\ AdvanceRead("trigger", change.matchId)
          /\ change' = IF AdvanceError(matches, change.matchId) # "none"
                       THEN ChangeReturned
                       ELSE [change EXCEPT !.pc = "advancing"]
  /\ UNCHANGED <<recentChanges, rankingCalls, changeCount>>

\* line 211, the awaited updatePlayoffBrackets: one of its writes, or the
\* rejection of a create, which is logged (216-221); the call returns when
\* updatePlayoffBrackets has ended
triggeredAdvanceStep ==
  /\ change.pc = "advancing"
  /\ \/ AdvanceDelete("trigger")
     \/ AdvanceCreate("trigger")
     \/ AdvanceCreateFails("trigger")
  /\ change' = IF pc'["trigger"] = "idle" THEN ChangeReturned ELSE change
  /\ UNCHANGED <<recentChanges, advanceCalls, rankingCalls, changeCount>>

\* no call of the services above
MoreIdle == RankIdle /\ CfgIdle /\ SortIdle /\ FieldsIdle /\ ChangeIdle

\* ---------------------------------------------------------- specification

Scores == {<<1, 0>>, <<0, 1>>, <<0, 0>>}

NoCallInFlight == \A c \in Callers : pc[c] = "idle"

Init == InitPlayoff(MaxTeams) /\ FrcIdle /\ SwissIdle /\ MoreIdle

\* the operations of a stage when a request is served to its end before the
\* next one is taken: between the steps of an advance call nothing else runs
Next ==
  \/ /\ NoCallInFlight
     /\ \E t \in {PLAYOFF, SWISS}, r \in 1..MaxRounds, f \in {0, MaxFields} :
          generatePlayoffSchedule(t, r, f)
     /\ UNCHANGED <<optVars, swissVars, moreVars>>
  \/ /\ NoCallInFlight
     /\ \E id \in DOMAIN matches, s \in Scores : CompleteMatch(id, s[1], s[2])
     /\ UNCHANGED <<optVars, swissVars, moreVars>>
  \/ /\ NoCallInFlight
     /\ \E c \in Callers, id \in 1..(Len(matches) + 1) : AdvanceRead(c, id)
     /\ UNCHANGED <<optVars, swissVars, moreVars>>
  \/ (\E c \in Callers : AdvanceDelete(c)) /\ UNCHANGED <<optVars, swissVars, moreVars>>
  \/ (\E c \in Callers : AdvanceCreate(c)) /\ UNCHANGED <<optVars, swissVars, moreVars>>
  \/ (\E c \in Callers : AdvanceCreateFails(c)) /\ UNCHANGED <<optVars, swissVars, moreVars>>
  \/ NoCallInFlight /\ finalizePlayoffRankings /\ UNCHANGED <<optVars, swissVars, moreVars>>

Spec == Init /\ [][Next]_allVars

\* the requests that write matches and rosters when they overlap: the awaits
\* of an advance call interleave with builds, completions and other advances
NextConcurrent ==
  \/ /\ \E t \in {PLAYOFF, SWISS}, r \in 1..MaxRounds, f \in {0, MaxFields} :
          generatePlayoffSchedule(t, r, f)
     /\ UNCHANGED <<optVars, swissVars, moreVars>>
  \/ /\ \E id \in DOMAIN matches, s \in Scores : CompleteMatch(id, s[1], s[2])
     /\ UNCHANGED <<optVars, swissVars, moreVars>>
  \/ /\ \E c \in Callers, id \in 1..(Len(matches) + 1) : AdvanceRead(c, id)
     /\ UNCHANGED <<optVars, swissVars, moreVars>>
  \/ (\E c \in Callers : AdvanceDelete(c)) /\ UNCHANGED <<optVars, swissVars, moreVars>>
  \/ (\E c \in Callers : AdvanceCreate(c)) /\ UNCHANGED <<optVars, swissVars, moreVars>>
  \/ (\E c \in Callers : AdvanceCreateFails(c)) /\ UNCHANGED <<optVars, swissVars, moreVars>>

SpecConcurrent == Init /\ [][NextConcurrent]_allVars

\* one generateFrcSchedule call, for every configuration within the bounds, on
\* the playoff stage of a tournament with MinTeams ranked teams; one bracket
\* build may come before the call, and builds may follow it
InitOptimizer == InitPlayoff(MinTeams) /\ FrcRequested /\ SwissIdle /\ MoreIdle

NextOptimizer ==
  \/ /\ phase = "requested"
     /\ matches = <<>>
     /\ lastEnded = Ended("none", "none")
     /\ \E r \in 1..MaxRounds : generatePlayoffSchedule(PLAYOFF, r, MaxFields)
     /\ UNCHANGED <<optVars, swissVars, moreVars>>
  \/ /\ phase \in {"done", "create_failed"}
     /\ Cardinality({id \in DOMAIN matches : matches[id].bracketSlot # 0}) <= MaxBuiltBefore
     /\ \E r \in 1..MaxRounds : generatePlayoffSchedule(PLAYOFF, r, MaxFields)
     /\ UNCHANGED <<optVars, swissVars, moreVars>>
  \/ generateFrcSchedule /\ UNCHANGED <<vars, swissVars, moreVars>>
  \/ /\ \E match1Index, match2Index \in DOMAIN schedule, alliance1, alliance2 \in {RED, BLUE},
          pos1, pos2 \in 1..config.teamsPerAlliance, draw \in BOOLEAN :
          optimizeStep(match1Index, match2Index, alliance1, alliance2, pos1, pos2, draw)
     /\ UNCHANGED <<vars, swissVars, moreVars>>
  \/ optimizeReturn /\ UNCHANGED <<vars, swissVars, moreVars>>
  \/ createMatch /\ UNCHANGED <<swissVars, moreVars>>
  \/ createMatchFails /\ UNCHANGED <<swissVars, moreVars>>

SpecOptimizer == InitOptimizer /\ [][NextOptimizer]_allVars

\* a playoff stage that bracket builds and one small generateFrcSchedule call
\* write to, its matches completed and advanced once the call has ended
InitStage ==
  /\ InitOptimizer
  /\ config = [numTeams |-> 2, teamsPerAlliance |-> 1, rounds |-> 1,
               maxIterations |-> 1, numFields |-> MaxFields]

NextStage ==
  \/ NextOptimizer
  \/ /\ phase \in {"done", "create_failed"}
     /\ NoCallInFlight
     /\ \E id \in DOMAIN matches, s \in Scores : CompleteMatch(id, s[1], s[2])
     /\ UNCHANGED <<optVars, swissVars, moreVars>>
  \/ /\ phase \in {"done", "create_failed"}
     /\ NoCallInFlight
     /\ \E id \in DOMAIN matches : AdvanceRead("endpoint", id)
     /\ UNCHANGED <<optVars, swissVars, moreVars>>
  \/ AdvanceDelete("endpoint") /\ UNCHANGED <<optVars, swissVars, moreVars>>
  \/ AdvanceCreate("endpoint") /\ UNCHANGED <<optVars, swissVars, moreVars>>
  \/ AdvanceCreateFails("endpoint") /\ UNCHANGED <<optVars, swissVars, moreVars>>

SpecStage == InitStage /\ [][NextStage]_allVars

\* one generateMatches call of the Swiss strategy
InitSwiss == InitPlayoff(MaxTeams) /\ FrcIdle /\ SwissRequested /\ MoreIdle

NextSwiss ==
  \/ generateMatches /\ UNCHANGED <<vars, optVars, moreVars>>
  \/ createSwissMatch /\ UNCHANGED <<vars, optVars, moreVars>>
  \/ createSwissMatchFails /\ UNCHANGED <<vars, optVars, moreVars>>

SpecSwiss == InitSwiss /\ [][NextSwiss]_allVars

\* updateSwissRankings calls on one stage
InitRank ==
  /\ InitPlayoff(MaxTeams) /\ FrcIdle /\ SwissIdle
  /\ RankRequested /\ CfgIdle /\ SortIdle /\ FieldsIdle /\ ChangeIdle

NextRank == updateSwissRankings /\ UNCHANGED <<vars, optVars, swissVars, cfgVars, sortVars, fieldVars, changeVars>>

SpecRank == InitRank /\ [][NextRank]_allVars

\* schedule-generation requests served by one MatchSchedulerService, each
\* running up to its await before another one runs
NextConfig ==
  \/ \E r \in Requests, args \in RequestArgs :
       BeginRequest(r, args) /\ UNCHANGED <<vars, optVars, swissVars, rankVars, sortVars, fieldVars, changeVars>>
  \/ \E r \in Requests :
       ComputeSchedule(r) /\ UNCHANGED <<vars, optVars, swissVars, rankVars, sortVars, fieldVars, changeVars>>

SpecConfig == Init /\ [][NextConfig]_allVars

\* one sort of the rows getSwissRankings returned
InitSort ==
  /\ InitPlayoff(MaxTeams) /\ FrcIdle /\ SwissIdle
  /\ RankIdle /\ CfgIdle /\ SortRequested /\ FieldsIdle /\ ChangeIdle

NextSort ==
  SortTeams /\ UNCHANGED <<vars, optVars, swissVars, rankVars, cfgVars, fieldVars, changeVars>>

SpecSort == InitSort /\ [][NextSort]_allVars

\* the field assignments of one generation run
InitFields ==
  /\ InitPlayoff(MaxTeams) /\ FrcIdle /\ SwissIdle
  /\ RankIdle /\ CfgIdle /\ SortIdle /\ FieldsShuffled /\ ChangeIdle

NextFields ==
  \E chosenIdx \in 1..MaxBalancedFields :
    /\ assignField(chosenIdx)
    /\ UNCHANGED <<vars, optVars, swissVars, rankVars, cfgVars, sortVars, changeVars>>

SpecFields == InitFields /\ [][NextFields]_allVars

\* status changes of the matches of a stage reported to recordMatchChange, one
\* call at a time, between bracket builds and match completions
otherChangeVars == <<optVars, swissVars, rankVars, cfgVars, sortVars, fieldVars>>

NextChange ==
  \/ /\ change.pc = "idle"
     /\ \E r \in 1..MaxRounds : generatePlayoffSchedule(PLAYOFF, r, MaxFields)
     /\ UNCHANGED <<changeVars, otherChangeVars>>
  \/ /\ change.pc = "idle"
     /\ \E id \in DOMAIN matches, s \in Scores : CompleteMatch(id, s[1], s[2])
     /\ UNCHANGED <<changeVars, otherChangeVars>>
  \/ /\ \E matchId \in 1..(Len(matches) + 1), previousStatus, newStatus \in MatchStates,
          stageType \in StageTypes :
          recordMatchChange(matchId, previousStatus, newStatus, stageType)
     /\ UNCHANGED otherChangeVars
  \/ triggerRankingRecalculation /\ UNCHANGED otherChangeVars
  \/ (\E stageNow \in StageTypes : triggerPlayoffBracketUpdate(stageNow))
       /\ UNCHANGED otherChangeVars
  \/ triggeredAdvanceStep /\ UNCHANGED otherChangeVars

InitChange == InitPlayoff(MinTeams) /\ FrcIdle /\ SwissIdle /\ MoreIdle

SpecChange == InitChange /\ [][NextChange]_allVars

\* ------------------------------------------------------ bracket properties

Colors == {RED, BLUE}

WinningRoster(m) == Roster(m, m.winningAlliance)
LosingRoster(m) == Roster(m, Other(m.winningAlliance))

\* the inputs generatePlayoffSchedule accepts: a playoff stage, at least
\* 2^R ranked teams, at least one field
ValidBuild(stageType, numberOfRounds, numFields) ==
  /\ stageType = PLAYOFF
  /\ Len(teamStats) >= Pow2(numberOfRounds)
  /\ numFields > 0

\* position, among the matches a build of R rounds creates, of the match at
\* index i of round `round` (both from 0)
CreationIndex(numberOfRounds, round, i) ==
  Pow2(numberOfRounds) - Pow2(numberOfRounds - round + 1) + i

\* the stage holds exactly the matches of one bracket of R rounds
IsBracket(ms, numberOfRounds) ==
  /\ Len(ms) = Pow2(numberOfRounds) - 1
  /\ \A round \in 1..numberOfRounds :
       Cardinality({i \in DOMAIN ms : ms[i].roundNumber = round})
         = Pow2(numberOfRounds - round)

\* C1: while an advance call of a completed match m with a winner and a
\* forward reference runs, it writes nothing but the roster of one side of
\* the forward match, RED when m's position in its round by bracket slot is
\* even and BLUE when it is odd, and when it returns that roster is the
\* winning alliance's rows, team ids and station positions alike.
C1_AdvanceFillsOneSide ==
  [][\A c \in Callers : pc[c] # "idle" =>
       LET id == call[c].matchId
           nextId == matches[id].feedsIntoMatchId
           side == IF MatchIndexInRound(matches, id) % 2 = 0 THEN RED ELSE BLUE
       IN /\ Len(matches') = Len(matches)
          /\ \A j \in DOMAIN matches : j # nextId => matches'[j] = matches[j]
          /\ Roster(matches'[nextId], Other(side)) = Roster(matches[nextId], Other(side))
          /\ [matches'[nextId] EXCEPT !.red = <<>>, !.blue = <<>>]
               = [matches[nextId] EXCEPT !.red = <<>>, !.blue = <<>>]
          /\ (pc'[c] = "idle" /\ lastEnded' = Ended("advance", "ok"))
               => Roster(matches'[nextId], side) = WinningRoster(matches[id])
    ]_vars

\* both feeders of a forward match advanced; the one at odd position filled BLUE
C1_Witness ==
  /\ lastEnded = Ended("advance", "ok")
  /\ \E id \in advanced :
       LET nextId == matches[id].feedsIntoMatchId
       IN /\ MatchIndexInRound(matches, id) % 2 = 1
          /\ WinningRoster(matches[id]) # <<>>
          /\ matches[nextId].blue = WinningRoster(matches[id])
          /\ matches[nextId].red # <<>>
          /\ matches[nextId].red # matches[nextId].blue

\* C2: an advance call on a match whose advance already returned ends with
\* an error at once; it never gets to write the forward roster again.
C2_DuplicateAdvanceRejected ==
  [][\A c \in Callers, id \in advanced : AdvanceRead(c, id) =>
       /\ pc'[c] = "idle"
       /\ lastEnded'.op = "advance"
       /\ lastEnded'.res \notin {"ok", "none"}
    ]_vars

\* C3: whatever the interleaving of the advance calls, once none is under way
\* every filled side of a forward match holds exactly the winning roster of
\* one of its feeders: no row twice, none missing, none mixed in.
C3_AdvanceSerialized ==
  NoCallInFlight =>
    \A j \in DOMAIN matches, color \in Colors :
      (matches[j].roundNumber > 1 /\ Roster(matches[j], color) # <<>>) =>
        \E id \in DOMAIN matches :
          /\ matches[id].feedsIntoMatchId = j
          /\ matches[id].winningAlliance # NULL
          /\ Roster(matches[j], color) = WinningRoster(matches[id])

\* C4: an advance call for a match that does not exist, is not completed, has
\* no winning side or no forward reference ends with an error and leaves every
\* match and roster as it was.
C4_InvalidAdvanceRejected ==
  [][\A c \in Callers, id \in 1..(Len(matches) + 1) :
       ( /\ AdvanceRead(c, id)
         /\ \/ id \notin DOMAIN matches
            \/ matches[id].status # COMPLETED
            \/ matches[id].winningAlliance = NULL
            \/ matches[id].feedsIntoMatchId = 0 )
       => /\ matches' = matches
          /\ pc' = pc
          /\ lastEnded'.op = "advance"
          /\ lastEnded'.res \notin {"ok", "none"}
    ]_vars

\* an advance of a completed, tied semifinal was rejected
C4_Witness ==
  /\ lastEnded = Ended("advance", "no_winner")
  /\ \E id \in DOMAIN matches :
       /\ matches[id].status = COMPLETED
       /\ matches[id].winningAlliance = NULL
       /\ matches[id].feedsIntoMatchId # 0
       /\ matches[matches[id].feedsIntoMatchId].red = <<>>
       /\ matches[matches[id].feedsIntoMatchId].blue = <<>>

\* C5: when an advance call ends, by returning or by an error, the target
\* roster is either the whole winning roster or what it was when the call
\* read it.
C5_AdvanceAllOrNothing ==
  [][\A c \in Callers : (pc[c] # "idle" /\ pc'[c] = "idle") =>
       LET rows == Roster(matches'[call[c].nextId], call[c].target)
       IN rows = call[c].rows \/ rows = call[c].targetRows
    ]_vars

\* C6: a build of R rounds on valid inputs creates all 2^(R-1) round-1
\* matches, and the one at index i pairs seed i+1 with seed 2^R - i.
C6_StandardSeeding ==
  [][\A r \in 1..MaxRounds, f \in 1..MaxFields :
       (ValidBuild(PLAYOFF, r, f) /\ generatePlayoffSchedule(PLAYOFF, r, f)) =>
         /\ Len(matches') >= Len(matches) + Pow2(r - 1)
         /\ \A i \in 0..(Pow2(r - 1) - 1) :
              LET m == matches'[Len(matches) + 1 + i]
              IN /\ m.roundNumber = 1
                 /\ TeamsOf(m.red) = {teamStats[i + 1]}
                 /\ TeamsOf(m.blue) = {teamStats[Pow2(r) - i]}
    ]_vars

\* C7: a build of R rounds on valid inputs creates 2^(R-r) matches in each
\* round r; the match at index i of round r < R feeds the match at index
\* floor(i/2) of round r+1; the matches of rounds above 1 have empty rosters.
C7_BracketShape ==
  [][\A r \in 1..MaxRounds, f \in 1..MaxFields :
       (ValidBuild(PLAYOFF, r, f) /\ generatePlayoffSchedule(PLAYOFF, r, f)) =>
         LET base == Len(matches)
             Created(round, i) == matches'[base + CreationIndex(r, round, i) + 1]
         IN /\ Len(matches') = base + Pow2(r) - 1
            /\ \A round \in 1..r : \A i \in 0..(Pow2(r - round) - 1) :
                 /\ Created(round, i).roundNumber = round
                 /\ Created(round, i).feedsIntoMatchId =
                      IF round < r
                      THEN base + CreationIndex(r, round + 1, i \div 2) + 1
                      ELSE 0
                 /\ round > 1 => /\ Created(round, i).red = <<>>
                                 /\ Created(round, i).blue = <<>>
    ]_vars

C9_FinalizeRejected ==
  [][( /\ finalizePlayoffRankings
       /\ \/ matches = <<>>
          \/ \E i \in DOMAIN matches : matches[i].status # COMPLETED )
      => /\ rank' = rank
         /\ lastEnded'.op = "finalize"
         /\ lastEnded'.res \notin {"ok", "none"}
    ]_vars

\* finalize was rejected on a stage with a completed and a pending match
C9_Witness ==
  /\ lastEnded = Ended("finalize", "incomplete")
  /\ \E i, j \in DOMAIN matches :
       /\ matches[i].status = COMPLETED
       /\ matches[i].winningAlliance # NULL
       /\ matches[j].status = PENDING
  /\ \A t \in 1..MaxTeams : rank[t] = 0

\* a match of a schedule in which no team holds two stations
NoTeamTwice(match) ==
  \A t \in 1..config.numTeams :
    Count(match.redAlliance, t) + Count(match.blueAlliance, t) <= 1

\* C10: no match of the schedule the optimizer returns holds a team twice,
\* neither twice in one alliance nor once in each.
C10_NoTeamTwiceInMatch ==
  phase = "returned" =>
    \A k \in DOMAIN bestSchedule : NoTeamTwice(bestSchedule[k])

\* the least m with m * d >= n
CeilDiv(n, d) == CHOOSE m \in 0..n : m * d >= n /\ \A k \in 0..(m - 1) : k * d < n

\* the call's inputs are valid: a supported alliance size, at least one field,
\* at least as many teams as a match takes
ValidFrcInputs ==
  /\ config.teamsPerAlliance \in MinAllianceSize..MaxAllianceSize
  /\ config.numFields >= 1
  /\ config.numTeams >= AlliancesPerMatch * config.teamsPerAlliance

\* the Match rows the generateFrcSchedule call has created
CreatedRows == SubSeq(matches, Len(matches) - createdMatches + 1, Len(matches))

\* C11: when generateFrcSchedule returns on valid inputs it has created
\* exactly ceil(N * rounds / matchSize) matches, and each of them has
\* allianceSize teams, at stations 1..allianceSize, on its red side and on
\* its blue side.
C11_MatchCountAndSides ==
  (phase = "done" /\ ValidFrcInputs) =>
    /\ createdMatches = CeilDiv(config.numTeams * config.rounds,
                                AlliancesPerMatch * config.teamsPerAlliance)
    /\ \A k \in DOMAIN CreatedRows : \A color \in Colors :
         LET rows == Roster(CreatedRows[k], color)
         IN /\ Len(rows) = config.teamsPerAlliance
            /\ Cardinality(TeamsOf(rows)) = config.teamsPerAlliance
            /\ \A i \in DOMAIN rows : rows[i].stationPosition = i
\* the matches of a schedule as Match rows numbered from 1
RowsOf(ms) == [k \in DOMAIN ms |-> FrcMatchRow(ms[k], k)]

\* C12: in every step of an optimization run the best score does not go up,
\* it is the score of the best candidate, and it is no greater than the score
\* of the initial schedule and of every neighbor accepted as the active
\* schedule so far; what the call returns and persists is that best candidate.
C12_BestNeverWorse ==
  [][ /\ (phase = "annealing" /\ phase' \in {"annealing", "returned"}) =>
           /\ bestScore' <= bestScore
           /\ bestScore' <= score'
           /\ bestScore' <= lowestAccepted'
           /\ bestScore' <= calculateScheduleScore(
                  InitialSchedule(config.numTeams, config.rounds, config.teamsPerAlliance),
                  config.numTeams, config.teamsPerAlliance, MinMatchSeparation)
           /\ bestScore' = calculateScheduleScore(bestSchedule', config.numTeams,
                              config.teamsPerAlliance, MinMatchSeparation)
      /\ (phase = "returned" /\ phase' \in {"returned", "done"}) =>
           /\ bestSchedule' = bestSchedule
           /\ bestScore' = bestScore
           /\ SubSeq(matches', Len(matches') - createdMatches' + 1, Len(matches'))
                = SubSeq(RowsOf(bestSchedule), 1, createdMatches')
    ]_allVars

\* a run that found a better schedule, then accepted a worse one as the
\* active schedule, and returned the better one
C12_Witness ==
  /\ phase = "done"
  /\ iteration = 2
  /\ bestScore < calculateScheduleScore(
        InitialSchedule(config.numTeams, config.rounds, config.teamsPerAlliance),
        config.numTeams, config.teamsPerAlliance, MinMatchSeparation)
  /\ bestScore < score
  /\ CreatedRows = RowsOf(bestSchedule)
\* ------------------------------------------------------- pairing engine

\* the number of pairs of a team of side1 and a team of side2 that met before
RepeatCount(side1, side2, previousOpponents) ==
  Cardinality({rb \in side1 \X side2 : rb[2] \in previousOpponents[rb[1]]})

\* the repeat count of a created Match row against the history the call read
RowRepeatCount(row) ==
  RepeatCount(TeamsOf(row.red), TeamsOf(row.blue),
              getPreviousOpponents(EarlierRows, Len(swissTeamStats)))

\* C13: the split of every created match has the minimum repeat count over
\* all splits of its 2A teams into two alliances of size A: no split has a
\* strictly lower count, so the count is zero whenever a zero-repeat split exists
C13_MinimumRepeatSplit ==
  \A k \in DOMAIN SwissCreatedRows :
    LET row == SwissCreatedRows[k]
        chunk == TeamsOf(row.red) \cup TeamsOf(row.blue)
    IN \A side \in SUBSET chunk :
         Cardinality(side) = swiss.teamsPerAlliance
           => RowRepeatCount(row)
                <= RepeatCount(side, chunk \ side,
                               getPreviousOpponents(EarlierRows, Len(swissTeamStats)))

\* a round of one two-against-two match whose split is not the default one:
\* the default split has more repeats, and no split has none
C13_Witness ==
  /\ swissPhase = "done"
  /\ swiss.teamsPerAlliance = 2
  /\ swissCreated = 1
  /\ LET sortedTeams == sortTeamsByTiebreakers(swissRankings, swissTeamStats)
     IN /\ RowRepeatCount(SwissCreatedRows[1]) > 0
        /\ RowRepeatCount(SwissCreatedRows[1])
             < RepeatCount({sortedTeams[1], sortedTeams[2]}, {sortedTeams[3], sortedTeams[4]},
                           getPreviousOpponents(EarlierRows, Len(swissTeamStats)))

\* the teams of a sequence of Match rows, with repetitions
RECURSIVE TeamsPlaced(_)
TeamsPlaced(rows) ==
  IF rows = <<>> THEN <<>>
  ELSE [i \in DOMAIN Head(rows).red |-> Head(rows).red[i].teamId]
       \o [i \in DOMAIN Head(rows).blue |-> Head(rows).blue[i].teamId]
       \o TeamsPlaced(Tail(rows))

\* C14: in the emitted round every team appears in at most one match and every
\* match has A teams per side; when the call returns, floor(N / 2A) matches
\* were created and the lowest-ranked N mod 2A teams of the sorted order are
\* the unpaired ones
C14_RoundOfWholeMatches ==
  LET placed == TeamsPlaced(SwissCreatedRows)
      sortedTeams == sortTeamsByTiebreakers(swissRankings, swissTeamStats)
      matchSize == 2 * swiss.teamsPerAlliance
  IN /\ \A i, j \in DOMAIN placed : placed[i] = placed[j] => i = j
     /\ \A k \in DOMAIN SwissCreatedRows :
          /\ Len(SwissCreatedRows[k].red) = swiss.teamsPerAlliance
          /\ Len(SwissCreatedRows[k].blue) = swiss.teamsPerAlliance
     /\ swissPhase = "done"
          => /\ swissCreated = Len(swissTeamStats) \div matchSize
             /\ PairedTeams(SwissCreatedRows)
                  = {sortedTeams[i] : i \in 1..(swissCreated * matchSize)}

\* a returned round of one match that leaves the lowest-ranked team unpaired
C14_Witness ==
  /\ swissPhase = "done"
  /\ swissCreated = 1
  /\ Len(swissTeamStats) = 3
  /\ LET sortedTeams == sortTeamsByTiebreakers(swissRankings, swissTeamStats)
     IN sortedTeams[3] \notin PairedTeams(SwissCreatedRows)

\* the round generateSwissMatches creates from the sorted teams
RECURSIVE SwissRound(_, _, _, _, _)
SwissRound(sortedTeams, earlier, created, numTeams, teamsPerAlliance) ==
  IF LoopGoesOn(sortedTeams, created, teamsPerAlliance)
  THEN SwissRound(sortedTeams, earlier,
                  Append(created, NextSwissMatch(sortedTeams, earlier, created, numTeams,
                                                 teamsPerAlliance)),
                  numTeams, teamsPerAlliance)
  ELSE created

\* C15: the emitted round depends on the standings and the history only: in
\* whatever order the persistence layer returns the same TeamStats rows, the
\* call creates the same matches with the same teams on the same sides
C15_PairingDeterministic ==
  swissPhase = "done"
    => \A order \in RankingOrders(swissTeamStats) :
         SwissRound(sortTeamsByTiebreakers(order, swissTeamStats), EarlierRows, <<>>,
                    Len(swissTeamStats), swiss.teamsPerAlliance)
           = SwissCreatedRows

\* -------------------------------------------------------- error handling

\* C16: a call of the optimizer or of the pairing engine that fails leaves no
\* Match row of that call behind
C16_NoPartialPersist ==
  /\ swissPhase = "create_failed" => swissCreated = 0
  /\ phase = "create_failed" => createdMatches = 0

\* the alliance size is in the supported range
SupportedAllianceSize(teamsPerAlliance) ==
  teamsPerAlliance >= MinAllianceSize /\ teamsPerAlliance <= MaxAllianceSize

\* C17: a call of the optimizer or of the pairing engine with an alliance size
\* outside 1..3 ends with a configuration error and creates no match
C17_AllianceSizeRejected ==
  /\ (swissPhase \notin {"idle", "requested"} /\ ~SupportedAllianceSize(swiss.teamsPerAlliance))
       => swissPhase = "invalid_alliance_size" /\ swissCreated = 0
  /\ (phase \notin {"idle", "requested"} /\ ~SupportedAllianceSize(config.teamsPerAlliance))
       => phase = "invalid_alliance_size" /\ createdMatches = 0

\* C18: the optimizer ends with the no-fields error when the tournament has no
\* field and with the insufficient-teams error when it has fields and fewer
\* than 2 * teamsPerAlliance teams; a bracket build of numberOfRounds rounds
\* ends with the insufficient-teams error when fewer than 2^numberOfRounds
\* ranked teams exist; none of these calls creates a match, then or later
C18_FailuresCreateNothing ==
  [][ /\ (phase = "requested" /\ phase' # "requested")
           => /\ config.numFields = 0 => phase' = "no_fields"
              /\ (config.numFields > 0
                  /\ config.numTeams < AlliancesPerMatch * config.teamsPerAlliance)
                   => phase' = "not_enough_teams"
              /\ phase' \in {"no_fields", "not_enough_teams"}
                   => matches' = matches /\ createdMatches' = 0
      /\ phase \in {"no_fields", "not_enough_teams"}
           => UNCHANGED <<phase, matches, createdMatches>>
      /\ \A numberOfRounds \in 1..MaxRounds :
           (/\ Len(teamStats) < Pow2(numberOfRounds)
            /\ generatePlayoffSchedule(PLAYOFF, numberOfRounds, MaxFields))
             => /\ lastEnded' = Ended("generate", "not_enough_teams")
                /\ matches' = matches
    ]_allVars

\* a bracket build and an optimizer call that both ended with the
\* insufficient-teams error, the stage still empty
C18_Witness ==
  /\ lastEnded = Ended("generate", "not_enough_teams")
  /\ phase = "not_enough_teams"
  /\ config.numFields > 0
  /\ matches = <<>>
  /\ createdMatches = 0

\* ------------------------------------------------------------ invariants

\* the match reached from id by following feedsIntoMatchId for at most
\* `steps` steps; 0 when the chain ended
RECURSIVE FollowForward(_, _, _)
FollowForward(ms, id, steps) ==
  IF id = 0 \/ steps = 0 THEN id
  ELSE FollowForward(ms, ms[id].feedsIntoMatchId, steps - 1)

\* following the forward references from any match never revisits a match
ForwardAcyclic(ms) ==
  \A id \in DOMAIN ms :
    /\ ms[id].feedsIntoMatchId \in DOMAIN ms \cup {0}
    /\ FollowForward(ms, id, Len(ms)) = 0

\* C19: the forward references of the stage's matches never form a cycle, and
\* after a bracket build of R rounds every match it created in a round below
\* R has a forward reference, to a match of the stage, and every match it
\* created in round R has none
C19_ForwardReferencesAcyclic ==
  /\ []ForwardAcyclic(matches)
  /\ [][\A r \in 1..MaxRounds, f \in 0..MaxFields :
          generatePlayoffSchedule(PLAYOFF, r, f) =>
            \A k \in (Len(matches) + 1)..Len(matches') :
              IF matches'[k].roundNumber < r
              THEN matches'[k].feedsIntoMatchId \in DOMAIN matches'
              ELSE matches'[k].feedsIntoMatchId = 0
      ]_vars

\* the Match rows added to a stage have matchNumbers above every matchNumber
\* the stage held, and different from each other
NumbersAbove(before, after) ==
  \A k \in (Len(before) + 1)..Len(after) :
    /\ \A j \in DOMAIN before : after[k].matchNumber > before[j].matchNumber
    /\ \A j \in (Len(before) + 1)..(k - 1) : after[k].matchNumber > after[j].matchNumber

\* C20: every match a generation operation creates in a stage has a
\* matchNumber strictly greater than every matchNumber already in the stage
C20_MatchNumbersMonotonic ==
  [][NumbersAbove(matches, matches') /\ NumbersAbove(swissStage, swissStage')]_allVars

\* ------------------------------------------------------------ standings

\* the completed matches of the stage a team appears in
CompletedWith(ms, teamId) ==
  {k \in DOMAIN ms : /\ ms[k].status = COMPLETED
                     /\ Places(ms[k].red, teamId) + Places(ms[k].blue, teamId) > 0}

\* C21: after updateSwissRankings every aggregate of a team of the tournament
\* has wins + losses + ties = matchesPlayed = the number of completed matches
\* of the stage the team appears in, and rankingPoints = 2 * wins + ties; a
\* second call with no match change leaves every aggregate unchanged
C21_StandingsFromCompleted ==
  /\ [](refreshCalls >= 1
          => \A t \in DOMAIN stageStats :
               /\ stageStats[t].wins + stageStats[t].losses + stageStats[t].ties
                    = stageStats[t].matchesPlayed
               /\ stageStats[t].matchesPlayed
                    = Cardinality(CompletedWith(stageMatches, t))
               /\ stageStats[t].rankingPoints
                    = 2 * stageStats[t].wins + stageStats[t].ties)
  /\ [][refreshCalls >= 1 => stageStats' = stageStats]_allVars

\* -------------------------------------------------------- configuration

\* the configuration a request supplies: its preset and overrides over the
\* default configuration, its alliance size, round count and quality tier
SuppliedConfig(args) ==
  ApplyParameters(ApplyPresetAndConfig(DEFAULT_FRC_CONFIG, args), args)

\* C22: the schedule of every request is computed with the configuration that
\* this request supplied, whatever other requests ran before it or between
\* its steps
C22_ConfigOfTheRequest ==
  \A r \in Requests :
    request[r].pc = "done" => request[r].used = SuppliedConfig(request[r].args)

\* ------------------------------------------------------------ sort order

\* C23: in the order the pairing engine walks, a team with more ranking points
\* comes before one with fewer; among equal ranking points a team with a
\* greater opponentWinPercentage comes first, however small the difference;
\* among equal values of both, a team with a greater pointDifferential comes
\* first; and the order is the same for every order the rows can be returned in
\* unless rows are equal in all three values
C23_SortedByTiebreakTuple ==
  sortResult # <<>>
    => /\ \A i, j \in DOMAIN sortResult :
            i < j =>
              LET a == sortStats[sortResult[i]]
                  b == sortStats[sortResult[j]]
              IN /\ a.rankingPoints >= b.rankingPoints
                 /\ a.rankingPoints = b.rankingPoints
                      => a.opponentWinPercentage >= b.opponentWinPercentage
                 /\ (/\ a.rankingPoints = b.rankingPoints
                     /\ a.opponentWinPercentage = b.opponentWinPercentage)
                      => a.pointDifferential >= b.pointDifferential
       /\ \A order \in RankingOrders(sortStats) :
            LET other == sortTeamsByTiebreakers(order, sortStats)
            IN \A i \in DOMAIN sortResult :
                 LET a == sortStats[sortResult[i]]
                     b == sortStats[other[i]]
                 IN /\ a.rankingPoints = b.rankingPoints
                    /\ a.opponentWinPercentage = b.opponentWinPercentage
                    /\ a.pointDifferential = b.pointDifferential

\* ---------------------------------------------------------- penalty score

\* C24: the score of the active schedule is the sum over all teams of
\* (count - 1) * partnerRepeat for each partner seen more than once, of
\* (count - 1) * opponentRepeat for each opponent seen more than once, of
\* (count - 1) * generalRepeat for each team interacted with more than once,
\* of (minMatchSeparation - gap) * matchSeparationViolation for each pair of
\* consecutive appearances closer than minMatchSeparation, of
\* |redCount - blueCount| * redBlueImbalance, and of the stationImbalance-weighted
\* absolute deviation of each station's usage from the even share
\* (in units of 1 / (2 * totalStations), as score is)
C24_ScoreIsPenaltySum ==
  schedule # <<>>
    => LET numTeams == config.numTeams
           totalStations == TotalStations(config.teamsPerAlliance)
           appearancesOf(t) == Appearances(schedule, t, 1)
           PartnerTerm(t) ==
             SumSeq([p \in 1..numTeams |->
                       IF Partners(schedule, t, p) > 1
                       THEN (Partners(schedule, t, p) - 1) * PartnerRepeat ELSE 0])
           OpponentTerm(t) ==
             SumSeq([o \in 1..numTeams |->
                       IF Opponents(schedule, t, o) > 1
                       THEN (Opponents(schedule, t, o) - 1) * OpponentRepeat ELSE 0])
           GeneralTerm(t) ==
             SumSeq([o \in 1..numTeams |->
                       LET count == Partners(schedule, t, o) + Opponents(schedule, t, o)
                       IN IF count > 1 THEN (count - 1) * GeneralRepeat ELSE 0])
           SeparationTerm(t) ==
             SumSeq([i \in 1..(Len(appearancesOf(t)) - 1) |->
                       LET gap == appearancesOf(t)[i + 1] - appearancesOf(t)[i]
                       IN IF gap < MinMatchSeparation
                          THEN (MinMatchSeparation - gap) * MatchSeparationViolation
                          ELSE 0])
           SideTerm(t) ==
             Abs(RedCount(schedule, t) - BlueCount(schedule, t)) * RedBlueImbalance
           StationTerm(t) ==
             SumSeq([station \in 1..totalStations |->
                       Abs(StationAppearances(schedule, t, station) * totalStations
                           - Len(appearancesOf(t))) * StationImbalanceHalves])
       IN score = SumSeq([t \in 1..numTeams |->
                            2 * totalStations
                              * (PartnerTerm(t) + OpponentTerm(t) + GeneralTerm(t)
                                 + SeparationTerm(t) + SideTerm(t))
                            + StationTerm(t)])

\* ---------------------------------------------------------- field usage

\* C25: every assignment goes to a field whose counter is the lowest and adds
\* one to that counter only, and at every point of a generation run the
\* counters of any two fields differ by at most 1
C25_FieldUsageEven ==
  /\ [](\A i, j \in DOMAIN fieldAssignmentCounts :
          fieldAssignmentCounts[i] - fieldAssignmentCounts[j] <= 1)
  /\ [][\E idx \in DOMAIN fieldAssignmentCounts :
          /\ \A other \in DOMAIN fieldAssignmentCounts :
               fieldAssignmentCounts[idx] <= fieldAssignmentCounts[other]
          /\ fieldAssignmentCounts'
               = [fieldAssignmentCounts EXCEPT ![idx] = @ + 1]
          /\ matchFields' = Append(matchFields, shuffledFields[idx])]_fieldVars

\* three fields, and a fourth match has been given a field
C25_Witness ==
  /\ Len(shuffledFields) = 3
  /\ Len(matchFields) = 4

\* ---------------------------------------------------------- bracket slots

\* the bracket slots of the rows of ms that have one
SlotsOf(ms) == {ms[id].bracketSlot : id \in {i \in DOMAIN ms : ms[i].bracketSlot # 0}}

\* the highest bracket slot of ms, 0 when no row has one
HighestSlot(ms) ==
  IF SlotsOf(ms) = {} THEN 0
  ELSE CHOOSE top \in SlotsOf(ms) : \A slot \in SlotsOf(ms) : slot <= top

\* C26: the k-th match a build creates has the bracket slot (highest slot
\* already in the stage) + k, counting from 1 when the stage has none, also
\* when the stage holds matches without a bracket slot; and no two matches of
\* a stage share a bracket slot
C26_SlotsContinue ==
  /\ [][\A id \in (Len(matches) + 1)..Len(matches') :
          /\ matches'[id].bracketSlot # 0
               => matches'[id].bracketSlot = HighestSlot(matches) + (id - Len(matches))]_allVars
  /\ [](\A id1, id2 \in DOMAIN matches :
          (/\ id1 # id2
           /\ matches[id1].bracketSlot # 0)
            => matches[id1].bracketSlot # matches[id2].bracketSlot)

\* -------------------------------------------------------- feeder sides

\* C27: when an advance call of a match starts to write a side of the forward
\* match, that side does not hold the roster that the advance of another
\* match with the same forward reference placed there: two matches with the
\* same forward reference are written into different sides
C27_FeedersFillDifferentSides ==
  [][\A c \in Callers :
       (pc[c] = "idle" /\ pc'[c] = "delete")
         => \A other \in advanced \ {call'[c].matchId} :
              (/\ matches[other].feedsIntoMatchId = call'[c].nextId
               /\ WinningRoster(matches[other]) # <<>>)
                => Roster(matches[call'[c].nextId], call'[c].target)
                     # WinningRoster(matches[other])]_allVars

\* ---------------------------------------------------- appearance counts

\* C28: a step of the annealing loop keeps the number of matches of the active
\* schedule, the size of every alliance and the number of places every team
\* holds; in the best schedule every team holds config.rounds places when
\* numTeams is divisible by the match size, and otherwise config.rounds or
\* config.rounds + 1 places, the counts of two teams differing by at most 1
C28_SwapsKeepAppearances ==
  /\ [][(phase = "annealing" /\ phase' = "annealing")
          => /\ Len(schedule') = Len(schedule)
             /\ \A k \in DOMAIN schedule :
                  /\ Len(schedule'[k].redAlliance) = Len(schedule[k].redAlliance)
                  /\ Len(schedule'[k].blueAlliance) = Len(schedule[k].blueAlliance)
             /\ \A t \in 1..config.numTeams :
                  RedCount(schedule', t) + BlueCount(schedule', t)
                    = RedCount(schedule, t) + BlueCount(schedule, t)]_allVars
  /\ [](bestSchedule # <<>>
          => \A t, u \in 1..config.numTeams :
               LET appearances == RedCount(bestSchedule, t) + BlueCount(bestSchedule, t)
                   others == RedCount(bestSchedule, u) + BlueCount(bestSchedule, u)
               IN /\ appearances \in {config.rounds, config.rounds + 1}
                  /\ config.numTeams % TeamsPerMatch(config.teamsPerAlliance) = 0
                       => appearances = config.rounds
                  /\ appearances - others <= 1)

\* the optimizer returned after a swap became the active schedule, for a team
\* count that the match size does not divide, some team holding one place more
C28_Witness ==
  /\ phase = "returned"
  /\ config.numTeams % TeamsPerMatch(config.teamsPerAlliance) # 0
  /\ schedule # InitialSchedule(config.numTeams, config.rounds, config.teamsPerAlliance)
  /\ \E t \in 1..config.numTeams :
       RedCount(bestSchedule, t) + BlueCount(bestSchedule, t) = config.rounds + 1

\* ------------------------------------------------------ sides and feeders

\* the matches whose forward reference is `next` and that advance into `side`
FeedersInto(ms, next, side) ==
  {id \in DOMAIN ms : /\ ms[id].feedsIntoMatchId = next
                      /\ AdvancesAs(MatchIndexInRound(ms, id)) = side}

\* C29: a side of a match that other matches feed is non-empty only if the
\* match feeding that side is completed and its advance returned, and the side
\* then holds that match's winning roster; and when no advance call is under
\* way and the advances of both feeders of a match returned, both of its sides
\* are non-empty and share no team
C29_SidesFromAdvancedFeeders ==
  \A next \in DOMAIN matches :
    /\ \A side \in {RED, BLUE} :
         (/\ \E id \in DOMAIN matches : matches[id].feedsIntoMatchId = next
          /\ Roster(matches[next], side) # <<>>)
           => \E id \in FeedersInto(matches, next, side) :
                /\ matches[id].status = COMPLETED
                /\ id \in advanced
                /\ Roster(matches[next], side) = WinningRoster(matches[id])
    /\ (/\ NoCallInFlight
        /\ FeedersInto(matches, next, RED) # {}
        /\ FeedersInto(matches, next, BLUE) # {}
        /\ FeedersInto(matches, next, RED) \cup FeedersInto(matches, next, BLUE) \subseteq advanced)
         => /\ matches[next].red # <<>>
            /\ matches[next].blue # <<>>
            /\ TeamsOf(matches[next].red) \cap TeamsOf(matches[next].blue) = {}

\* -------------------------------------------------- triggered advances

\* C30: a recordMatchChange call calls updatePlayoffBrackets at most once, and
\* only for a change to COMPLETED from another status in a stage read as
\* PLAYOFF; it calls the ranking recalculation only in a stage read as SWISS,
\* and never both; when the triggered advance ends with an error the call
\* returns to its caller and the stored event stays
C30_AdvanceTriggeredOnce ==
  /\ [](advanceCalls <= 1 /\ advanceCalls + rankingCalls <= 1 /\ change.result # "threw")
  /\ [][/\ advanceCalls' > advanceCalls
             => /\ change.newStatus = COMPLETED
                /\ change.previousStatus # COMPLETED
                /\ change.stageType = PLAYOFF
        /\ rankingCalls' > rankingCalls => change.stageType = SWISS
        /\ (/\ change.pc \in {"bracket", "advancing"}
            /\ advanceCalls' = 1
            /\ lastEnded' # Ended("advance", "ok")
            /\ pc'["trigger"] = "idle")
             => /\ change' = ChangeReturned
                /\ recentChanges' = recentChanges
                /\ ChangeEvent(change.matchId, change.previousStatus, change.newStatus)
                     \in recentChanges']_allVars

\* a triggered advance wrote the forward match's roster and the triggered
\* advance of a later call ended with a rejected create; the call returned and
\* the events are stored
C30_Witness ==
  /\ advanceCalls = 1
  /\ changeCount = 2
  /\ change = ChangeReturned
  /\ lastEnded = Ended("advance", "db_error")
  /\ \E id \in advanced :
       /\ matches[id].feedsIntoMatchId # 0
       /\ \E event \in recentChanges : event.matchId = id /\ event.newStatus = COMPLETED

====
